---- MODULE Spec2Model ----
(***************************************************************************)
(* Temp-assignment re-routing and the daily route materializer of the      *)
(* routing core (app/api/routes.py, app/services/tech_routing.py), and the  *)
(* handlers that save, reorder, move and delete the routes of a day.       *)
(*                                                                         *)
(* The database tables temp_tech_assignments, tech_routes, routes and      *)
(* route_stops are the shared state.  Every request handler runs as a     *)
(* process whose steps are the statements between two commits; a statement *)
(* reads the committed state, and the writes of a transaction become       *)
(* visible at its commit (PostgreSQL READ COMMITTED, the default of the    *)
(* async session).  optimize computes routes and stores nothing; its       *)
(* state is the call in progress.                                          *)
(***************************************************************************)
EXTENDS Integers, Sequences, FiniteSets, TLC

VARIABLES today, nticks, ncalls, temps, routes, pc, call,
          saved_routes, route_stops, deployment, opt, week

vars == <<today, nticks, ncalls, temps, routes, pc, call,
          saved_routes, route_stops, deployment, opt, week>>

\* the tables routes and route_stops and the schema they were created with,
\* the call of optimize and the call of optimize over several days
saved == <<saved_routes, route_stops, deployment, opt, week>>

(***************************************************************************)
(* Bounds of the model.                                                    *)
(***************************************************************************)
MaxCalls == 3        \* requests started in a run of SpecSeq
MaxConcCalls == 2    \* requests started in a run of Spec (they may overlap)
MaxTicks == 1        \* changes of the calendar day in a run
LongGap == 7         \* days without a request: a day, or this many days
MaxRouteCalls == 3   \* requests started in a run of SpecRoutes
MaxOptCustomers == 3 \* customers in a call of optimize
MaxTenantCalls == 2  \* requests started in a run of SpecTenant

(***************************************************************************)
(* Program constants.                                                      *)
(***************************************************************************)
TempTtlDays == 6     \* cutoff_date = today - timedelta(days=6)

NULL == "NULL"

Procs == {"p1", "p2"}

(***************************************************************************)
(* The external read model: organizations, techs and customers.  The core  *)
(* only reads them.  Strings that the code searches (service_schedule) are *)
(* tuples of characters, so that LIKE '%Mo%' and Python's `in` are         *)
(* substring searches here too; <<>> is a schedule that is not set.        *)
(***************************************************************************)
Orgs == {"A", "B"}

TechIds == {"T1", "T2", "T3"}

Tech ==
  [t \in TechIds |->
     [organization_id |-> IF t = "T3" THEN "B" ELSE "A", is_active |-> TRUE]]

CustomerIds == {"c1", "c2", "c3", "c4"}

Customer ==
  [c \in CustomerIds |->
     CASE c = "c1" ->
            [organization_id |-> "A", is_active |-> TRUE,
             assigned_tech_id |-> "T1", service_day |-> "monday",
             service_days_per_week |-> 1, service_schedule |-> <<>>,
             has_coordinates |-> TRUE]
       [] c = "c2" ->
            \* switched from twice a week back to once a week by a partial
            \* update (api/customers.py:264-266 sets only the fields sent)
            [organization_id |-> "A", is_active |-> TRUE,
             assigned_tech_id |-> "T1", service_day |-> "monday",
             service_days_per_week |-> 1,
             service_schedule |-> <<"T", "u", "/", "F", "r">>,
             has_coordinates |-> TRUE]
       [] c = "c3" ->
            \* not geocoded, not assigned to a tech yet
            [organization_id |-> "A", is_active |-> TRUE,
             assigned_tech_id |-> NULL, service_day |-> "monday",
             service_days_per_week |-> 1, service_schedule |-> <<>>,
             has_coordinates |-> FALSE]
       [] OTHER ->
            [organization_id |-> "B", is_active |-> TRUE,
             assigned_tech_id |-> "T3", service_day |-> "monday",
             service_days_per_week |-> 2,
             service_schedule |-> <<"M", "o", "/", "T", "h">>,
             has_coordinates |-> TRUE]]

Days == {"monday", "tuesday"}

TechsOf(org) == {t \in TechIds : Tech[t].organization_id = org}

CustomersOf(org) == {c \in CustomerIds : Customer[c].organization_id = org}

(***************************************************************************)
(* Helpers on strings and lists.                                           *)
(***************************************************************************)
\* day_abbrev_map.get(service_day.lower())
DayAbbrev(day) ==
  CASE day = "monday" -> <<"M", "o">>
    [] day = "tuesday" -> <<"T", "u">>
    [] day = "wednesday" -> <<"W", "e">>
    [] day = "thursday" -> <<"T", "h">>
    [] day = "friday" -> <<"F", "r">>
    [] day = "saturday" -> <<"S", "a">>
    [] day = "sunday" -> <<"S", "u">>
    [] OTHER -> <<>>

\* sub in s (Python), s LIKE '%sub%' (SQL)
Contains(s, sub) ==
  \E i \in 1..(Len(s) - Len(sub) + 1) : SubSeq(s, i, i + Len(sub) - 1) = sub

Range(s) == {s[i] : i \in 1..Len(s)}

\* all orders of the elements of S
Perms(S) ==
  {f \in [1..Cardinality(S) -> S] : \A i, j \in 1..Cardinality(S) : f[i] = f[j] => i = j}

\* the rows of a query without ORDER BY come in primary-key order
CustomerOrder == <<"c1", "c2", "c3", "c4">>

InIdOrder(S) == SelectSeq(CustomerOrder, LAMBDA c : c \in S)

(***************************************************************************)
(* The queries of create_temp_assignment, as sets of rows.                 *)
(***************************************************************************)
\* delete(TempTechAssignment).where(organization_id, assignment_date < cutoff)
PurgeQuery(T, org, td) ==
  {r \in T : r.organization_id = org /\ r.assignment_date < td - TempTtlDays}

\* select(TempTechAssignment).where(organization_id, customer_id, service_day,
\*                                  assignment_date == today)
OldTempQuery(T, org, c, day, td) ==
  {r \in T : /\ r.organization_id = org
             /\ r.customer_id = c
             /\ r.service_day = day
             /\ r.assignment_date = td}

\* delete(TempTechAssignment).where(organization_id, customer_id, service_day)
DeleteTempQuery(T, org, c, day) ==
  {r \in T : /\ r.organization_id = org
             /\ r.customer_id = c
             /\ r.service_day = day}

\* if new_tech_id != customer.assigned_tech_id: db.add(TempTechAssignment(...))
NeedsTempRow(c, t) == t # Customer[c].assigned_tech_id

\* only the new tech is affected: the old tech keeps its route
AffectedTechIds_NewOnly(old, new) == {new} \ {NULL}

\* affected_tech_ids: old and new, excluding None
AffectedTechIds(old, new) == {old, new} \ {NULL}

\* RouteDeleteQuery without the tech_id filter: C3 rests on the filter
RouteDeleteQuery_AnyTech(R, org, techs, day, td) ==
  {r \in R : /\ r.organization_id = org
             /\ r.service_day = day
             /\ r.route_date = td}

\* delete(TechRoute).where(organization_id, tech_id.in_(affected), service_day,
\*                         route_date == today)
RouteDeleteQuery(R, org, techs, day, td) ==
  {r \in R : /\ r.organization_id = org
             /\ r.tech_id \in techs
             /\ r.service_day = day
             /\ r.route_date = td}

\* select(Customer).where(organization_id, is_active,
\*        or_(service_day == day, service_schedule.like('%Mo%')))
CustomersOnDayQuery(org, day) ==
  {c \in CustomerIds :
     /\ Customer[c].organization_id = org
     /\ Customer[c].is_active
     /\ \/ Customer[c].service_day = day
        \/ /\ DayAbbrev(day) # <<>>
           /\ Customer[c].service_schedule # <<>>
           /\ Contains(Customer[c].service_schedule, DayAbbrev(day))}

\* TempsForDayQuery without the date filter: C6 rests on the filter
TempsForDayQuery_AnyDate(T, org, day, td) ==
  {r \in T : /\ r.organization_id = org
             /\ r.service_day = day}

\* select(TempTechAssignment).where(organization_id, service_day,
\*                                  assignment_date == today)
TempsForDayQuery(T, org, day, td) ==
  {r \in T : /\ r.organization_id = org
             /\ r.service_day = day
             /\ r.assignment_date = td}

\* {ta.customer_id: ta.tech_id for ta in rows}: with two rows for a customer
\* the one the query returns last wins
TempDicts(rows) ==
  {f \in [{r.customer_id : r \in rows} -> {r.tech_id : r \in rows}] :
     \A c \in DOMAIN f : \E r \in rows : r.customer_id = c /\ r.tech_id = f[c]}

\* TechCustomers by the permanent assignment alone: C2 rests on the temps
TechCustomers_Permanent(all, tmap, tech) ==
  {c \in all : Customer[c].assigned_tech_id = tech}

\* the customers of a tech: the temp assignment if there is one, else the
\* permanent assignment
TechCustomers(all, tmap, tech) ==
  {c \in all : IF c \in DOMAIN tmap THEN tmap[c] = tech
               ELSE Customer[c].assigned_tech_id = tech}

(***************************************************************************)
(* TechRoutingService.generate_route_for_tech: the stop sequences it can   *)
(* return for a list of customers.  The TSP solver either finds no         *)
(* solution or returns the customers that have coordinates in an order of  *)
(* its choice.                                                             *)
(***************************************************************************)
SolveTsp(customers) ==
  {[found |-> FALSE, stop_sequence |-> <<>>]}
    \cup {[found |-> TRUE, stop_sequence |-> s] :
            s \in Perms({c \in customers : Customer[c].has_coordinates})}

StopSequences(customers) ==
  IF customers = {} THEN {<<>>}
  ELSE IF Cardinality(customers) = 1 THEN {InIdOrder(customers)}
  ELSE {IF sol.found THEN sol.stop_sequence ELSE InIdOrder(customers) :
          sol \in SolveTsp(customers)}

TechRouteRow(org, tech, day, td, seq) ==
  [organization_id |-> org, tech_id |-> tech, service_day |-> day,
   route_date |-> td, stop_sequence |-> seq]

\* Index ix_tech_routes_tech_day_date (tech_id, service_day, route_date), unique
UniqueViolation(R, new) ==
  \E r \in R, n \in new :
     /\ r.tech_id = n.tech_id
     /\ r.service_day = n.service_day
     /\ r.route_date = n.route_date

(***************************************************************************)
(* The queries of get_tech_routes_for_day.                                 *)
(***************************************************************************)
\* the same query without the filter on the day
DayRoutesQuery_AnyDay(R, org, day, td) ==
  {r \in R : r.organization_id = org /\ r.route_date = td}

\* select(TechRoute).where(organization_id, service_day, route_date == today)
DayRoutesQuery(R, org, day, td) ==
  {r \in R : /\ r.organization_id = org
             /\ r.service_day = day
             /\ r.route_date = td}

\* select(Tech).where(organization_id, is_active)
ActiveTechsQuery(org) ==
  {t \in TechIds : Tech[t].organization_id = org /\ Tech[t].is_active}

\* select(Customer).where(organization_id, is_active)
ActiveCustomersQuery(org) ==
  {c \in CustomerIds : Customer[c].organization_id = org /\ Customer[c].is_active}

\* is_scheduled_today
IsScheduledToday(c, day) ==
  \/ Customer[c].service_day = day
  \/ /\ DayAbbrev(day) # <<>>
     /\ Customer[c].service_schedule # <<>>
     /\ Contains(Customer[c].service_schedule, DayAbbrev(day))

\* the response: every route with its stops resolved among the tenant's
\* active customers
DayRoutesResponse(rows, org) ==
  {[tech_id |-> r.tech_id,
    stop_sequence |-> r.stop_sequence,
    stops |-> SelectSeq(r.stop_sequence, LAMBDA c : c \in ActiveCustomersQuery(org))]
     : r \in rows}

\* no call of optimize over several days: the request and the locals of the
\* loops over the days
NoWeek ==
  [pc |-> "idle", entry |-> "none", customers |-> {}, unlocked |-> {},
   include_saturday |-> FALSE, include_sunday |-> FALSE, days |-> <<>>,
   i |-> 1, j |-> 1, pass |-> "final", assignments |-> <<>>,
   day_workloads |-> <<>>, solves |-> {}, routes |-> {}, failed |-> {},
   moved |-> {}, summary |-> [total_routes |-> 0]]

\* no call of optimize: the locals of _extract_solution and of the loop of
\* _optimize_refine_mode
NoOptimize ==
  [pc |-> "idle", mode |-> "none", customer_start_idx |-> 0, paths |-> <<>>,
   valid |-> <<>>, solved |-> <<>>, vehicle_id |-> 0, pos |-> 1,
   route_customers |-> <<>>, routes |-> <<>>, assigned |-> <<>>]

(***************************************************************************)
(* State.                                                                  *)
(*   today    the calendar day, date.today()                               *)
(*   temps    table temp_tech_assignments                                  *)
(*   routes   table tech_routes                                            *)
(*   saved_routes, route_stops   tables routes and route_stops             *)
(*   deployment   which backend serves the routes of a day, and on which    *)
(*                schema                                                   *)
(*   opt      the call of optimize: inputs and locals                      *)
(*   week     the call of optimize over several days                       *)
(*   pc       where each request handler stands                            *)
(*   call     the request and the local variables of each handler          *)
(***************************************************************************)
NoCall ==
  [op |-> "none", organization_id |-> NULL, customer_id |-> NULL,
   new_tech_id |-> NULL, service_day |-> NULL, today |-> 0,
   old_temp |-> {}, old_tech_id |-> NULL, deleted |-> {}, temp_assignment |-> {},
   affected_tech_ids |-> {}, todo |-> {}, temp_rows |-> {}, pending |-> {},
   updated_routes |-> <<>>, response |-> {}, result |-> "none",
   routes_in |-> <<>>, stops_in |-> <<>>, route_id |-> 0, stop_id |-> 0,
   target_route_id |-> 0, new_sequence |-> 0, existing |-> {}, route_ids |-> <<>>]

Init ==
  /\ today = 0
  /\ nticks = 0
  /\ ncalls = 0
  /\ temps = {}
  /\ routes = {}
  /\ pc = [p \in Procs |-> "idle"]
  /\ call = [p \in Procs |-> NoCall]
  /\ saved_routes = {}
  /\ route_stops = {}
  /\ deployment = "declared"
  /\ opt = NoOptimize
  /\ week = NoWeek

AllIdle == \A p \in Procs : pc[p] = "idle"

\* the rows a transaction in flight has deleted and not yet committed
Uncommitted == UNION {call[p].deleted : p \in Procs}

\* a primary key for a new temp row, different from every row of the same
\* content that is stored or that some open transaction still refers to
NewTempRow(org, c, t, day, td) ==
  LET row(i) == [id |-> i, organization_id |-> org, customer_id |-> c,
                 tech_id |-> t, service_day |-> day, assignment_date |-> td]
      free == {i \in 1..(Cardinality(Procs) + 1) : row(i) \notin temps \cup Uncommitted}
  IN row(CHOOSE i \in free : \A j \in free : i <= j)

(***************************************************************************)
(* create_temp_assignment (set_temp_assignment).                           *)
(***************************************************************************)
\* routes.py:265-308: the request, the purge, the old temp, the customer and
\* the delete of the customer's temps; nothing is committed yet.  With two
\* rows for the key scalar_one_or_none raises and the request fails.
TA_Start(p, org, c, t, day) ==
  /\ pc[p] = "idle"
  /\ ncalls' = ncalls + 1
  /\ LET old == OldTempQuery(temps, org, c, day, today)
         req == [NoCall EXCEPT !.op = "set_temp_assignment",
                               !.organization_id = org, !.customer_id = c,
                               !.new_tech_id = t, !.service_day = day,
                               !.today = today]
     IN IF Cardinality(old) > 1
        THEN /\ call' = [call EXCEPT ![p] =
                  [req EXCEPT !.result = "MultipleResultsFound"]]
             /\ pc' = [pc EXCEPT ![p] = "done"]
        ELSE /\ call' = [call EXCEPT ![p] =
                  [req EXCEPT
                     !.old_temp = old,
                     !.old_tech_id =
                        IF old # {} THEN (CHOOSE r \in old : TRUE).tech_id
                        ELSE Customer[c].assigned_tech_id,
                     !.deleted = PurgeQuery(temps, org, today)
                                   \cup DeleteTempQuery(temps, org, c, day)]]
             /\ pc' = [pc EXCEPT ![p] = "ta_commit"]
  /\ UNCHANGED <<today, nticks, temps, routes>>
  /\ UNCHANGED saved

\* routes.py:310-328: insert the temp row unless the new tech is the
\* permanent one, commit, and collect the affected techs
TA_Commit(p) ==
  /\ pc[p] = "ta_commit"
  /\ LET k == call[p]
         row == NewTempRow(k.organization_id, k.customer_id, k.new_tech_id,
                           k.service_day, k.today)
         add == NeedsTempRow(k.customer_id, k.new_tech_id)
     IN /\ temps' = (temps \ k.deleted) \cup (IF add THEN {row} ELSE {})
        /\ call' = [call EXCEPT ![p] =
             [k EXCEPT !.deleted = {},
                       !.temp_assignment = IF add THEN {row} ELSE {},
                       !.affected_tech_ids =
                          AffectedTechIds(k.old_tech_id, k.new_tech_id)]]
  /\ pc' = [pc EXCEPT ![p] = "ta_delete_routes"]
  /\ UNCHANGED <<today, nticks, ncalls, routes>>
  /\ UNCHANGED saved

\* routes.py:330-342: delete the routes of the affected techs and commit
TA_DeleteRoutes(p) ==
  /\ pc[p] = "ta_delete_routes"
  /\ LET k == call[p]
     IN /\ routes' = routes \ RouteDeleteQuery(routes, k.organization_id,
                                k.affected_tech_ids, k.service_day, k.today)
        /\ call' = [call EXCEPT ![p] = [k EXCEPT !.todo = k.affected_tech_ids]]
  /\ pc' = [pc EXCEPT ![p] = "ta_loop"]
  /\ UNCHANGED <<today, nticks, ncalls, temps>>
  /\ UNCHANGED saved

\* routes.py:344-399: one round of the loop over the affected techs (a set:
\* any order), up to the generated route
TA_Generate(p) ==
  /\ pc[p] = "ta_loop"
  /\ call[p].todo # {}
  /\ LET k == call[p]
         rows == TempsForDayQuery(temps, k.organization_id, k.service_day, k.today)
         all == CustomersOnDayQuery(k.organization_id, k.service_day)
     IN \E tech \in k.todo :
        \E tmap \in TempDicts(rows) :
        \E seq \in StopSequences(TechCustomers(all, tmap, tech)) :
           call' = [call EXCEPT ![p] =
             [k EXCEPT !.todo = k.todo \ {tech},
                       !.temp_rows = rows,
                       !.pending = {TechRouteRow(k.organization_id, tech,
                                                 k.service_day, k.today, seq)}]]
  /\ pc' = [pc EXCEPT ![p] = "ta_insert"]
  /\ UNCHANGED <<today, nticks, ncalls, temps, routes>>
  /\ UNCHANGED saved

\* routes.py:401-414: db.add(tech_route), commit; a second row for
\* (tech, day, date) violates the unique index and the request fails
TA_Insert(p) ==
  /\ pc[p] = "ta_insert"
  /\ LET k == call[p]
     IN IF UniqueViolation(routes, k.pending)
        THEN /\ routes' = routes
             /\ call' = [call EXCEPT ![p] = [k EXCEPT !.pending = {}, !.result = "IntegrityError"]]
             /\ pc' = [pc EXCEPT ![p] = "done"]
        ELSE /\ routes' = routes \cup k.pending
             /\ call' = [call EXCEPT ![p] =
                  [k EXCEPT !.pending = {},
                            !.updated_routes =
                               Append(k.updated_routes,
                                      LET r == CHOOSE r \in k.pending : TRUE
                                      IN [tech_id |-> r.tech_id,
                                          stop_sequence |-> r.stop_sequence])]]
             /\ pc' = [pc EXCEPT ![p] = "ta_loop"]
  /\ UNCHANGED <<today, nticks, ncalls, temps>>
  /\ UNCHANGED saved

\* routes.py:416-420: the response reads temp_assignment.id, a name that is
\* bound only when a temp row was inserted
TA_Return(p) ==
  /\ pc[p] = "ta_loop"
  /\ call[p].todo = {}
  /\ call' = [call EXCEPT ![p].result =
                IF call[p].temp_assignment = {} THEN "UnboundLocalError" ELSE "ok"]
  /\ pc' = [pc EXCEPT ![p] = "done"]
  /\ UNCHANGED <<today, nticks, ncalls, temps, routes>>
  /\ UNCHANGED saved

(***************************************************************************)
(* get_tech_routes_for_day (get_day_routes).                               *)
(***************************************************************************)
\* routes.py:977-990, 1082-1135: load the routes of the day; answer with
\* them if there are any
GD_Start(p, org, day) ==
  /\ pc[p] = "idle"
  /\ ncalls' = ncalls + 1
  /\ LET found == DayRoutesQuery(routes, org, day, today)
         req == [NoCall EXCEPT !.op = "get_day_routes", !.organization_id = org,
                               !.service_day = day, !.today = today]
     IN IF found # {}
        THEN /\ call' = [call EXCEPT ![p] =
                  [req EXCEPT !.response = DayRoutesResponse(found, org),
                              !.result = "ok"]]
             /\ pc' = [pc EXCEPT ![p] = "done"]
        ELSE /\ call' = [call EXCEPT ![p] = req]
             /\ pc' = [pc EXCEPT ![p] = "gd_generate"]
  /\ UNCHANGED <<today, nticks, temps, routes>>
  /\ UNCHANGED saved

\* routes.py:991-1067: a route for every active tech that has customers
GD_Generate(p) ==
  /\ pc[p] = "gd_generate"
  /\ LET k == call[p]
         rows == TempsForDayQuery(temps, k.organization_id, k.service_day, k.today)
         all == {c \in ActiveCustomersQuery(k.organization_id) :
                   IsScheduledToday(c, k.service_day)}
     IN \E tmap \in TempDicts(rows) :
        LET ts == {t \in ActiveTechsQuery(k.organization_id) :
                     TechCustomers(all, tmap, t) # {}}
        IN \E f \in [ts -> UNION {StopSequences(TechCustomers(all, tmap, t)) : t \in ts}] :
             /\ \A t \in ts : f[t] \in StopSequences(TechCustomers(all, tmap, t))
             /\ call' = [call EXCEPT ![p] =
                  [k EXCEPT !.temp_rows = rows,
                            !.pending = {TechRouteRow(k.organization_id, t,
                                           k.service_day, k.today, f[t]) : t \in ts}]]
  /\ pc' = [pc EXCEPT ![p] = "gd_commit"]
  /\ UNCHANGED <<today, nticks, ncalls, temps, routes>>
  /\ UNCHANGED saved

\* routes.py:1069-1135: commit the new routes, reload the day and answer
GD_Commit(p) ==
  /\ pc[p] = "gd_commit"
  /\ LET k == call[p]
     IN IF UniqueViolation(routes, k.pending)
        THEN /\ routes' = routes
             /\ call' = [call EXCEPT ![p] = [k EXCEPT !.pending = {}, !.result = "IntegrityError"]]
        ELSE /\ routes' = routes \cup k.pending
             /\ call' = [call EXCEPT ![p] =
                  [k EXCEPT
                     !.pending = {},
                     !.response =
                        IF k.pending = {} THEN {}
                        ELSE DayRoutesResponse(
                               DayRoutesQuery(routes \cup k.pending, k.organization_id,
                                              k.service_day, k.today),
                               k.organization_id),
                     !.result = "ok"]]
  /\ pc' = [pc EXCEPT ![p] = "done"]
  /\ UNCHANGED <<today, nticks, ncalls, temps>>
  /\ UNCHANGED saved

\* the response (or the error) goes back to the client
Finish(p) ==
  /\ pc[p] = "done"
  /\ pc' = [pc EXCEPT ![p] = "idle"]
  /\ call' = [call EXCEPT ![p] = NoCall]
  /\ UNCHANGED <<today, nticks, ncalls, temps, routes>>
  /\ UNCHANGED saved

\* the calendar day changes between requests; with both tables empty every
\* day is like every other, so the days are counted from the first row
Tick(k) ==
  /\ AllIdle
  /\ nticks < MaxTicks
  /\ temps \cup routes # {}
  /\ nticks' = nticks + 1
  /\ today' = today + k
  /\ UNCHANGED <<ncalls, temps, routes, pc, call>>
  /\ UNCHANGED saved

(***************************************************************************)
(* Requests name customers and techs of the caller's tenant.               *)
(***************************************************************************)
SetTempAssignment(p) ==
  \E org \in Orgs : \E c \in CustomersOf(org) : \E t \in TechsOf(org) : \E day \in Days :
     TA_Start(p, org, c, t, day)

GetDayRoutes(p) == \E org \in Orgs : \E day \in Days : GD_Start(p, org, day)

Step(p) ==
  \/ TA_Commit(p)
  \/ TA_DeleteRoutes(p)
  \/ TA_Generate(p)
  \/ TA_Insert(p)
  \/ TA_Return(p)
  \/ GD_Generate(p)
  \/ GD_Commit(p)
  \/ Finish(p)

DayChange == \E k \in {1, LongGap} : Tick(k)

\* requests of any number of clients, overlapping; a day change counts when
\* a request follows it
Next ==
  \/ \E p \in Procs : ncalls < MaxConcCalls /\ SetTempAssignment(p)
  \/ \E p \in Procs : ncalls < MaxConcCalls /\ GetDayRoutes(p)
  \/ \E p \in Procs : Step(p)
  \/ ncalls < MaxConcCalls /\ DayChange

Spec == Init /\ [][Next]_vars

\* one request at a time
NextSeq ==
  \/ AllIdle /\ ncalls < MaxCalls /\ SetTempAssignment("p1")
  \/ AllIdle /\ ncalls < MaxCalls /\ GetDayRoutes("p1")
  \/ Step("p1")
  \/ ncalls < MaxCalls /\ DayChange

SpecSeq == Init /\ [][NextSeq]_vars

(***************************************************************************)
(* The tables routes and route_stops (models/route.py).  A Route row has   *)
(* an id, organization_id, tech_id, service_day, total_customers and       *)
(* total_duration_minutes; a RouteStop row has an id, route_id,            *)
(* customer_id and sequence.  No constraint ties sequence to the route.    *)
(*                                                                         *)
(* The repository holds two backends for these tables.  app/api/routes.py  *)
(* comes first.  Its Route.organization_id is declared NOT NULL and its    *)
(* save_routes does not set it; the tables of a deployment come from       *)
(* migrations that are not part of the sources, those of a test database   *)
(* from the declared models, so the insert of a Route either fails         *)
(* (deployment "declared") or stores NULL (deployment "migrated").         *)
(* app/src/services/route_service.py is the other backend (deployment      *)
(* "v2"); its RouteStop names a property where the first names a customer, *)
(* and its Route has total_stops for total_customers.                      *)
(***************************************************************************)
\* an id that no row has
NoSuchId == 0

\* one entry of RouteSaveRequest.routes, and one of its stops
RouteData(t, d, stops) ==
  [tech_id |-> t, total_duration_minutes |-> d, total_stops |-> Len(stops),
   stops |-> stops]

StopData(c, n) == [customer_id |-> c, sequence |-> n]

\* default=uuid.uuid4: n ids that no row of the table has
RECURSIVE FreshIds(_, _)
FreshIds(used, n) ==
  IF n = 0 THEN <<>>
  ELSE LET i == CHOOSE i \in 1..(Cardinality(used) + 1) :
                   i \notin used /\ \A j \in 1..(i - 1) : j \in used
       IN <<i>> \o FreshIds(used \cup {i}, n - 1)

\* valid_drivers: select(Tech).where(Tech.id.in_(tech_ids), organization_id)
ValidDrivers(R, org) ==
  {t \in {R[i].tech_id : i \in 1..Len(R)} : Tech[t].organization_id = org}

\* ExistingRoutesQuery that finds nothing: C11 rests on the delete
ExistingRoutesQuery_None(RT, org, day) == {}

\* select(Route).join(Tech).where(Route.service_day == day,
\*                                Tech.organization_id == org)
ExistingRoutesQuery(RT, org, day) ==
  {r \in RT : r.service_day = day /\ Tech[r.tech_id].organization_id = org}

\* relationship stops, cascade="all, delete-orphan": the stops that go with
\* the routes
StopsOfRoutes(ST, rs) == {s \in ST : s.route_id \in {r.id : r \in rs}}

\* Route(tech_id, service_day, total_duration_minutes,
\*       total_customers=len(stops)); organization_id is not set
NewRouteRow(id, day, rd) ==
  [id |-> id, organization_id |-> NULL, tech_id |-> rd.tech_id,
   service_day |-> day, total_customers |-> Len(rd.stops),
   total_duration_minutes |-> rd.total_duration_minutes]

\* RouteStop(route_id=route.id, customer_id, sequence=stop_data["sequence"])
\* for every stop of every route of the request, in request order
RECURSIVE NewStops(_, _)
NewStops(R, rid) ==
  IF R = <<>> THEN <<>>
  ELSE [i \in 1..Len(Head(R).stops) |->
          [route_id |-> Head(rid),
           customer_id |-> Head(R).stops[i].customer_id,
           sequence |-> Head(R).stops[i].sequence]]
       \o NewStops(Tail(R), Tail(rid))

\* save_routes, routes.py:440-501, as a function of the tables
SaveRoutesResult(RT, ST, nullable, org, day, R) ==
  LET unchanged(res, old) ==
        [saved_routes |-> RT, route_stops |-> ST, result |-> res,
         existing |-> old, route_ids |-> <<>>]
      old == ExistingRoutesQuery(RT, org, day)
      RT1 == RT \ old
      ST1 == ST \ StopsOfRoutes(ST, old)
      rid == FreshIds({r.id : r \in RT1}, Len(R))
      flat == NewStops(R, rid)
      sid == FreshIds({s.id : s \in ST1}, Len(flat))
  IN IF \E i \in 1..Len(R) : R[i].tech_id \notin ValidDrivers(R, org)
     THEN unchanged("Forbidden", {})
     ELSE IF R # <<>> /\ ~nullable
     THEN unchanged("IntegrityError", old)
     ELSE [saved_routes |->
             RT1 \cup {NewRouteRow(rid[i], day, R[i]) : i \in 1..Len(R)},
           route_stops |->
             ST1 \cup {[id |-> sid[i], route_id |-> flat[i].route_id,
                        customer_id |-> flat[i].customer_id,
                        sequence |-> flat[i].sequence] : i \in 1..Len(flat)},
           result |-> "ok", existing |-> old, route_ids |-> rid]

\* select(Route).join(Tech).where(Route.service_day == day,
\*        Tech.organization_id == org).order_by(created_at.desc())
RoutesByDayQuery(RT, org, day) ==
  {r \in RT : r.service_day = day /\ Tech[r.tech_id].organization_id = org}

\* RoutesToDeleteQuery for any tenant: C15 rests on the join with Tech
RoutesToDeleteQuery_AnyOrg(RT, org, day) == {r \in RT : r.service_day = day}

\* delete_routes_by_day: select(Route).join(Tech).where(service_day, org)
RoutesToDeleteQuery(RT, org, day) ==
  {r \in RT : r.service_day = day /\ Tech[r.tech_id].organization_id = org}

\* select(Route).join(Tech).where(Route.id == route_id,
\*                                Tech.organization_id == org)
OwnRouteQuery(RT, org, route_id) ==
  {r \in RT : r.id = route_id /\ Tech[r.tech_id].organization_id = org}

\* stop.sequence = new_sequence
StopUpdate(s, d) == [s EXCEPT !.sequence = d.sequence]

\* for stop_data in stops_data: the stop of that id, if there is one, gets
\* the sequence of the entry; the stop is looked up by its id alone
RECURSIVE ApplyStopUpdates(_, _)
ApplyStopUpdates(ST, stops_data) ==
  IF stops_data = <<>> THEN ST
  ELSE ApplyStopUpdates(
         {IF s.id = Head(stops_data).stop_id THEN StopUpdate(s, Head(stops_data))
          ELSE s : s \in ST},
         Tail(stops_data))

\* update_route_stops, routes.py:817-860, as a function of the tables
UpdateRouteStopsResult(RT, ST, org, route_id, stops_data) ==
  IF OwnRouteQuery(RT, org, route_id) = {}
  THEN [saved_routes |-> RT, route_stops |-> ST, result |-> "NotFound"]
  ELSE [saved_routes |->
          {IF r.id = route_id
           THEN [r EXCEPT !.total_customers =
                   Cardinality({s \in ST : s.route_id = route_id})]
           ELSE r : r \in RT},
        route_stops |-> ApplyStopUpdates(ST, stops_data),
        result |-> "ok"]

\* select(RouteStop).where(route_id == old_route_id).order_by(sequence): the
\* stored rows of the route in every order the sort allows (equal sequence
\* values come in any order)
SourceStopOrders(ST, route_id) ==
  LET src == {s \in ST : s.route_id = route_id}
  IN {f \in Perms(src) :
        \A i, j \in 1..Cardinality(src) : i < j => f[i].sequence <= f[j].sequence}

\* move_stop_to_route, routes.py:883-960, as a function of the tables: the
\* set of its outcomes.  The session does not flush before a query
\* (database.py:24, autoflush=False), so the two selects after the
\* assignment to stop.route_id still see the stop in its old route: it is
\* renumbered with the source stops, which overwrites new_sequence, it is
\* counted in the source route and not counted in the target route.
MoveStopResults(RT, ST, org, stop_id, target_route_id, new_sequence) ==
  LET stop == {s \in ST : s.id = stop_id}
      old_route_id == (CHOOSE s \in stop : TRUE).route_id
      failed(res) == [saved_routes |-> RT, route_stops |-> ST, result |-> res]
      moved(f) ==
        [saved_routes |->
           {IF r.id = target_route_id
            THEN [r EXCEPT !.total_customers =
                    Cardinality({s \in ST : s.route_id = target_route_id})]
            ELSE IF r.id = old_route_id
            THEN [r EXCEPT !.total_customers = Len(f)]
            ELSE r : r \in RT},
         route_stops |->
           {s \in ST : s.route_id # old_route_id}
             \cup {[f[i] EXCEPT !.sequence = i,
                                !.route_id = IF f[i].id = stop_id
                                             THEN target_route_id ELSE @]
                     : i \in 1..Len(f)},
         result |-> "ok"]
  IN IF stop = {} THEN {failed("NotFound")}
     ELSE IF OwnRouteQuery(RT, org, target_route_id) = {} THEN {failed("NotFound")}
     ELSE IF OwnRouteQuery(RT, org, old_route_id) = {} THEN {failed("Forbidden")}
     ELSE {moved(f) : f \in SourceStopOrders(ST, old_route_id)}

(***************************************************************************)
(* The handlers of the routes of a day in app/api/routes.py.  Each runs in  *)
(* one transaction that it commits at its end, or that get_db rolls back   *)
(* when it raises.                                                         *)
(***************************************************************************)
\* save_routes, routes.py:428-501
SR_Call(p, org, day, R) ==
  /\ pc[p] = "idle"
  /\ deployment # "v2"
  /\ ncalls' = ncalls + 1
  /\ LET res == SaveRoutesResult(saved_routes, route_stops, deployment = "migrated", org, day, R)
     IN /\ saved_routes' = res.saved_routes
        /\ route_stops' = res.route_stops
        /\ call' = [call EXCEPT ![p] =
             [NoCall EXCEPT !.op = "save_routes", !.organization_id = org,
                            !.service_day = day, !.routes_in = R,
                            !.existing = res.existing,
                            !.route_ids = res.route_ids,
                            !.result = res.result]]
  /\ pc' = [pc EXCEPT ![p] = "done"]
  /\ UNCHANGED <<today, nticks, temps, routes, deployment, opt, week>>

\* get_routes_by_day, routes.py:509-526: the rows go through
\* SavedRouteResponse, whose required field driver_id a Route does not have
RD_Call(p, org, day) ==
  /\ pc[p] = "idle"
  /\ deployment # "v2"
  /\ ncalls' = ncalls + 1
  /\ call' = [call EXCEPT ![p] =
       [NoCall EXCEPT !.op = "get_routes_by_day", !.organization_id = org,
                      !.service_day = day,
                      !.existing = RoutesByDayQuery(saved_routes, org, day),
                      !.result = IF RoutesByDayQuery(saved_routes, org, day) = {}
                                 THEN "ok" ELSE "ResponseValidationError"]]
  /\ pc' = [pc EXCEPT ![p] = "done"]
  /\ UNCHANGED <<today, nticks, temps, routes>>
  /\ UNCHANGED saved

\* delete_routes_by_day, routes.py:534-554
DD_Call(p, org, day) ==
  /\ pc[p] = "idle"
  /\ deployment # "v2"
  /\ ncalls' = ncalls + 1
  /\ LET old == RoutesToDeleteQuery(saved_routes, org, day)
     IN /\ saved_routes' = saved_routes \ old
        /\ route_stops' = route_stops \ StopsOfRoutes(route_stops, old)
        /\ call' = [call EXCEPT ![p] =
             [NoCall EXCEPT !.op = "delete_day_routes", !.organization_id = org,
                            !.service_day = day, !.existing = old,
                            !.result = "ok"]]
  /\ pc' = [pc EXCEPT ![p] = "done"]
  /\ UNCHANGED <<today, nticks, temps, routes, deployment, opt, week>>

\* update_route_stops, routes.py:799-860
US_Call(p, org, route_id, stops_data) ==
  /\ pc[p] = "idle"
  /\ deployment # "v2"
  /\ ncalls' = ncalls + 1
  /\ LET res == UpdateRouteStopsResult(saved_routes, route_stops, org,
                                       route_id, stops_data)
     IN /\ saved_routes' = res.saved_routes
        /\ route_stops' = res.route_stops
        /\ call' = [call EXCEPT ![p] =
             [NoCall EXCEPT !.op = "reorder_stops", !.organization_id = org,
                            !.route_id = route_id, !.stops_in = stops_data,
                            !.result = res.result]]
  /\ pc' = [pc EXCEPT ![p] = "done"]
  /\ UNCHANGED <<today, nticks, temps, routes, deployment, opt, week>>

\* move_stop_to_route, routes.py:867-960
MS_Call(p, org, stop_id, target_route_id, new_sequence) ==
  /\ pc[p] = "idle"
  /\ deployment # "v2"
  /\ ncalls' = ncalls + 1
  /\ \E res \in MoveStopResults(saved_routes, route_stops, org, stop_id,
                                target_route_id, new_sequence) :
        /\ saved_routes' = res.saved_routes
        /\ route_stops' = res.route_stops
        /\ call' = [call EXCEPT ![p] =
             [NoCall EXCEPT !.op = "move_stop", !.organization_id = org,
                            !.stop_id = stop_id,
                            !.route_id =
                               IF \E s \in route_stops : s.id = stop_id
                               THEN (CHOOSE s \in route_stops : s.id = stop_id).route_id
                               ELSE NoSuchId,
                            !.target_route_id = target_route_id,
                            !.new_sequence = new_sequence,
                            !.result = res.result]]
  /\ pc' = [pc EXCEPT ![p] = "done"]
  /\ UNCHANGED <<today, nticks, temps, routes, deployment, opt, week>>

(***************************************************************************)
(* RouteService (app/src/services/route_service.py) and its endpoints      *)
(* (app/src/api/v1/routes.py).  The session flushes before every query and *)
(* get_db commits when the endpoint returns.                               *)
(***************************************************************************)
\* select(Route).where(organization_id == org_id, tech_id == rd["tech_id"],
\*                     service_day == rd["service_day"])
ServiceExistingQuery(RT, org, tech, day) ==
  {r \in RT : r.organization_id = org /\ r.tech_id = tech /\ r.service_day = day}

\* RouteService.save_routes, route_service.py:21-64: for every entry delete
\* the route of its tech and day, insert the route and its stops
RECURSIVE ServiceSaveRoutes(_, _, _, _, _)
ServiceSaveRoutes(RT, ST, org, day, R) ==
  IF R = <<>>
  THEN [saved_routes |-> RT, route_stops |-> ST, result |-> "ok",
        existing |-> {}, route_ids |-> <<>>]
  ELSE LET rd == Head(R)
           old == ServiceExistingQuery(RT, org, rd.tech_id, day)
           RT1 == RT \ old
           ST1 == ST \ StopsOfRoutes(ST, old)
           id == FreshIds({r.id : r \in RT1}, 1)[1]
           sid == FreshIds({s.id : s \in ST1}, Len(rd.stops))
           route == [id |-> id, organization_id |-> org, tech_id |-> rd.tech_id,
                     service_day |-> day, total_customers |-> rd.total_stops,
                     total_duration_minutes |-> rd.total_duration_minutes]
           stops == {[id |-> sid[i], route_id |-> id,
                      customer_id |-> rd.stops[i].customer_id,
                      sequence |-> rd.stops[i].sequence] : i \in 1..Len(rd.stops)}
           rest == ServiceSaveRoutes(RT1 \cup {route}, ST1 \cup stops, org, day, Tail(R))
       IN [rest EXCEPT !.existing = old \cup @, !.route_ids = <<id>> \o @]

\* select(RouteStop).join(Route).where(RouteStop.id == stop_id,
\*                                     Route.organization_id == org_id)
ServiceStopQuery(RT, ST, org, stop_id) ==
  {s \in ST : /\ s.id = stop_id
              /\ \E r \in RT : r.id = s.route_id /\ r.organization_id = org}

\* RouteService.reorder_stop, route_service.py:98-131: the stops between the
\* old and the new place move by one, the stop takes the new place
ServiceReorderStop(RT, ST, org, stop_id, new_sequence) ==
  LET found == ServiceStopQuery(RT, ST, org, stop_id)
      stop == CHOOSE s \in found : TRUE
      old_seq == stop.sequence
      shifted(s) ==
        IF new_sequence > old_seq /\ old_seq < s.sequence /\ s.sequence <= new_sequence
        THEN [s EXCEPT !.sequence = @ - 1]
        ELSE IF new_sequence < old_seq /\ new_sequence <= s.sequence /\ s.sequence < old_seq
        THEN [s EXCEPT !.sequence = @ + 1]
        ELSE s
  IN IF found = {}
     THEN [saved_routes |-> RT, route_stops |-> ST, result |-> "NotFound"]
     ELSE [saved_routes |-> RT,
           route_stops |->
             {IF s.id = stop_id THEN [s EXCEPT !.sequence = new_sequence]
              ELSE IF s.route_id = stop.route_id THEN shifted(s)
              ELSE s : s \in ST},
           result |-> "ok"]

\* RouteService.get_routes_for_day: select(Route).where(organization_id,
\*                                                      service_day)
ServiceRoutesForDay(RT, org, day) ==
  {r \in RT : r.organization_id = org /\ r.service_day = day}

\* POST /routes/save
VS_Call(p, org, day, R) ==
  /\ pc[p] = "idle"
  /\ deployment = "v2"
  /\ ncalls' = ncalls + 1
  /\ LET res == ServiceSaveRoutes(saved_routes, route_stops, org, day, R)
     IN /\ saved_routes' = res.saved_routes
        /\ route_stops' = res.route_stops
        /\ call' = [call EXCEPT ![p] =
             [NoCall EXCEPT !.op = "save_routes", !.organization_id = org,
                            !.service_day = day, !.routes_in = R,
                            !.existing = res.existing,
                            !.route_ids = res.route_ids,
                            !.result = res.result]]
  /\ pc' = [pc EXCEPT ![p] = "done"]
  /\ UNCHANGED <<today, nticks, temps, routes, deployment, opt, week>>

\* PUT /routes/stops/{stop_id}/reorder
VR_Call(p, org, stop_id, new_sequence) ==
  /\ pc[p] = "idle"
  /\ deployment = "v2"
  /\ ncalls' = ncalls + 1
  /\ LET res == ServiceReorderStop(saved_routes, route_stops, org, stop_id, new_sequence)
     IN /\ saved_routes' = res.saved_routes
        /\ route_stops' = res.route_stops
        /\ call' = [call EXCEPT ![p] =
             [NoCall EXCEPT !.op = "reorder_stops", !.organization_id = org,
                            !.route_id =
                               IF \E s \in route_stops : s.id = stop_id
                               THEN (CHOOSE s \in route_stops : s.id = stop_id).route_id
                               ELSE NoSuchId,
                            !.stops_in = <<[stop_id |-> stop_id,
                                            sequence |-> new_sequence]>>,
                            !.result = res.result]]
  /\ pc' = [pc EXCEPT ![p] = "done"]
  /\ UNCHANGED <<today, nticks, temps, routes, deployment, opt, week>>

\* GET /routes/day/{service_day}: _route_to_response lists the stops of
\* every route sorted by sequence
VG_Call(p, org, day) ==
  /\ pc[p] = "idle"
  /\ deployment = "v2"
  /\ ncalls' = ncalls + 1
  /\ LET rs == ServiceRoutesForDay(saved_routes, org, day)
         orders == UNION {SourceStopOrders(route_stops, r.id) : r \in rs}
     IN \E f \in [rs -> orders] :
          /\ \A r \in rs : f[r] \in SourceStopOrders(route_stops, r.id)
          /\ call' = [call EXCEPT ![p] =
               [NoCall EXCEPT
                  !.op = "get_day_routes", !.organization_id = org,
                  !.service_day = day,
                  !.response =
                     {[tech_id |-> r.tech_id,
                       stop_sequence |-> [i \in 1..Len(f[r]) |-> f[r][i].customer_id],
                       stops |-> [i \in 1..Len(f[r]) |-> f[r][i].customer_id]]
                        : r \in rs},
                  !.result = "ok"]]
  /\ pc' = [pc EXCEPT ![p] = "done"]
  /\ UNCHANGED <<today, nticks, temps, routes>>
  /\ UNCHANGED saved

(***************************************************************************)
(* Requests for the routes of a day.  A save request names techs and       *)
(* customers of any tenant and sequence numbers of the client's choice; a  *)
(* reorder or a move names rows that are stored, or an id that no row has. *)
(***************************************************************************)
SaveRequests ==
  { <<>>,
    <<RouteData("T1", 40, <<StopData("c1", 1), StopData("c2", 2)>>)>>,
    <<RouteData("T1", 20, <<StopData("c2", 1)>>),
      RouteData("T2", 40, <<StopData("c3", 1), StopData("c1", 1)>>)>>,
    <<RouteData("T3", 20, <<StopData("c4", 1)>>)>>,
    <<RouteData("T1", 20, <<StopData("c1", 1)>>),
      RouteData("T3", 20, <<StopData("c4", 1)>>)>>,
    <<RouteData("T2", 20, <<StopData("c4", 1)>>)>> }

SequenceValues == {1, 2, 3}

RouteIdsNamed == {r.id : r \in saved_routes} \cup {NoSuchId}

StopIdsNamed == {s.id : s \in route_stops} \cup {NoSuchId}

StopEntries ==
  {[stop_id |-> s, sequence |-> n] : s \in StopIdsNamed, n \in SequenceValues}

\* stops_data: one entry, or two entries that give two stops the first two
\* places
StopLists ==
  {<<d>> : d \in StopEntries}
    \cup {x \in StopEntries \X StopEntries :
            /\ x[1].stop_id < x[2].stop_id
            /\ {x[1].sequence, x[2].sequence} = {1, 2}}

SaveRoutes(p) ==
  \E org \in Orgs : \E day \in Days : \E R \in SaveRequests :
     SR_Call(p, org, day, R) \/ VS_Call(p, org, day, R)

GetRoutesByDay(p) == \E org \in Orgs : \E day \in Days : RD_Call(p, org, day)

DeleteDayRoutes(p) == \E org \in Orgs : \E day \in Days : DD_Call(p, org, day)

ReorderStops(p) ==
  \E org \in Orgs :
     \/ \E route_id \in RouteIdsNamed : \E stops_data \in StopLists :
           US_Call(p, org, route_id, stops_data)
     \/ \E stop_id \in StopIdsNamed : \E n \in SequenceValues :
           VR_Call(p, org, stop_id, n)

MoveStop(p) ==
  \E org \in Orgs : \E stop_id \in StopIdsNamed :
  \E target_route_id \in RouteIdsNamed : \E n \in SequenceValues :
     MS_Call(p, org, stop_id, target_route_id, n)

ServiceDayRoutes(p) == \E org \in Orgs : \E day \in Days : VG_Call(p, org, day)

InitRoutes ==
  /\ today = 0
  /\ nticks = 0
  /\ ncalls = 0
  /\ temps = {}
  /\ routes = {}
  /\ pc = [p \in Procs |-> "idle"]
  /\ call = [p \in Procs |-> NoCall]
  /\ saved_routes = {}
  /\ route_stops = {}
  /\ deployment \in {"declared", "migrated", "v2"}
  /\ opt = NoOptimize
  /\ week = NoWeek

\* the routes of a day, one request at a time
NextRoutes ==
  \/ AllIdle /\ ncalls < MaxRouteCalls /\ SaveRoutes("p1")
  \/ AllIdle /\ ncalls < MaxRouteCalls /\ GetRoutesByDay("p1")
  \/ AllIdle /\ ncalls < MaxRouteCalls /\ DeleteDayRoutes("p1")
  \/ AllIdle /\ ncalls < MaxRouteCalls /\ ReorderStops("p1")
  \/ AllIdle /\ ncalls < MaxRouteCalls /\ MoveStop("p1")
  \/ AllIdle /\ ncalls < MaxRouteCalls /\ ServiceDayRoutes("p1")
  \/ AllIdle /\ ncalls < MaxRouteCalls /\ deployment # "v2" /\ GetDayRoutes("p1")
  \/ GD_Generate("p1")
  \/ GD_Commit("p1")
  \/ Finish("p1")

SpecRoutes == InitRoutes /\ [][NextRoutes]_vars

(***************************************************************************)
(* optimize (app/services/optimization.py).  The solver is OR-Tools: a     *)
(* solution gives every vehicle a path from its start depot over customer  *)
(* nodes to its end, and visits every node once (the models have no        *)
(* disjunction).  Nodes and vehicles count from 0 as in the code.  What    *)
(* the service returns is built from the paths by _extract_solution (modes *)
(* other than refine) and by the loop of _optimize_refine_mode.            *)
(***************************************************************************)
OptTechs == <<"T1", "T2">>

OptCustomers == SubSeq(CustomerOrder, 1, MaxOptCustomers)

\* _setup_multi_depot_locations: a start depot for every tech, an end depot
\* of its own for a tech that ends elsewhere, the customers after the depots
RECURSIVE DepotCount(_, _)
DepotCount(separate, n) ==
  IF n = 0 THEN 0
  ELSE DepotCount(separate, n - 1) + (IF separate[n] THEN 2 ELSE 1)

StartIndex(separate, vehicle_id) == DepotCount(separate, vehicle_id)

CustomerStartIdx(separate) == DepotCount(separate, Len(OptTechs))

\* StopDict that counts from 0: C19 rests on the + 1
StopDict_FromZero(customer, route_customers) ==
  [customer_id |-> customer, sequence |-> Len(route_customers)]

\* route_customers.append({"customer_id": ..., "sequence": len(route_customers) + 1})
StopDict(customer, route_customers) ==
  [customer_id |-> customer, sequence |-> Len(route_customers) + 1]

\* routes.append({"driver_id": ..., "stops": route_customers,
\*                "total_customers": len(route_customers)})
RouteDict(tech, route_customers) ==
  [driver_id |-> tech, stops |-> route_customers,
   total_customers |-> Len(route_customers)]

\* the position of customer c in the list cs
IndexIn(cs, c) == CHOOSE i \in 1..Len(cs) : cs[i] = c

\* the solutions of the solver for the customers: an order of all of them,
\* the first k on vehicle 0 and the rest on vehicle 1
Splits ==
  {[order |-> f, k |-> k] : f \in Perms(Range(OptCustomers)), k \in 0..Len(OptCustomers)}

PartOf(s, vehicle_id) ==
  IF vehicle_id = 0 THEN SubSeq(s.order, 1, s.k)
  ELSE SubSeq(s.order, s.k + 1, Len(s.order))

\* _optimize_single_day: the paths of a solution as node numbers
FullInputs ==
  {[NoOptimize EXCEPT
      !.pc = "extract", !.mode = "full",
      !.customer_start_idx = CustomerStartIdx(separate),
      !.valid = [v \in 1..Len(OptTechs) |-> OptCustomers],
      !.solved = [v \in 1..Len(OptTechs) |-> TRUE],
      !.paths = [v \in 1..Len(OptTechs) |->
                   <<StartIndex(separate, v - 1)>> \o
                   [i \in 1..Len(PartOf(s, v - 1)) |->
                      CustomerStartIdx(separate)
                        + IndexIn(OptCustomers, PartOf(s, v - 1)[i]) - 1]]]
     : s \in Splits, separate \in [1..Len(OptTechs) -> BOOLEAN]}

\* the customers a client hands to optimize in refine mode: each with an
\* assigned tech of the request, a tech the request does not list, or none
OptAssignments == [Range(OptCustomers) -> {"T1", "T2", "T3", NULL}]

\* every customer in the list of every tech
TechCustomersMap_AnyTech(assigned, tech) == InIdOrder(DOMAIN assigned)

\* optimization.py:165-171 and route_optimization_service.py:129-135: the
\* customers grouped by assigned tech, in the order of the input
TechCustomersMap(assigned, tech) ==
  InIdOrder({c \in DOMAIN assigned : assigned[c] # NULL /\ assigned[c] = tech})

\* one call in refine mode: the list of every tech of the request, whether
\* the solver found a solution for it, and its path over the nodes
\* 0 (depot), 1, 2, ... in the order f of the solution
RefineInput(mode, assigned, solved, f) ==
  LET valid == [v \in 1..Len(OptTechs) |-> TechCustomersMap(assigned, OptTechs[v])]
      visit(v) == SelectSeq(f, LAMBDA c : c \in Range(valid[v]))
  IN [NoOptimize EXCEPT
        !.pc = "refine", !.mode = mode, !.assigned = assigned,
        !.valid = valid,
        !.solved = solved,
        !.paths = [v \in 1..Len(OptTechs) |->
                     <<0>> \o [i \in 1..Len(visit(v)) |->
                                 IndexIn(valid[v], visit(v)[i])]]]

\* _optimize_refine_mode (optimization.py:146-349) and _optimize_refine of
\* the second backend (route_optimization_service.py:116-155), which has the
\* same loop: every assignment of the customers and every solver outcome
RefineInputs ==
  {RefineInput(mode, assigned, solved, f) :
     mode \in {"refine", "refine_v2"}, assigned \in OptAssignments,
     solved \in [1..Len(OptTechs) -> BOOLEAN], f \in Perms(Range(OptCustomers))}

\* _extract_solution, optimization.py:909-931: one turn of the while loop
ExtractNode ==
  /\ opt.pc = "extract"
  /\ opt.vehicle_id < Len(OptTechs)
  /\ opt.pos <= Len(opt.paths[opt.vehicle_id + 1])
  /\ LET node_index == opt.paths[opt.vehicle_id + 1][opt.pos]
         customer_idx == node_index - opt.customer_start_idx
     IN opt' = [opt EXCEPT
                  !.pos = @ + 1,
                  !.route_customers =
                     IF node_index >= opt.customer_start_idx
                     THEN Append(@, StopDict(opt.valid[opt.vehicle_id + 1][customer_idx + 1], @))
                     ELSE @]
  /\ UNCHANGED <<today, nticks, ncalls, temps, routes, pc, call,
                 saved_routes, route_stops, deployment, week>>

\* optimization.py:933-973: the route of the vehicle, if it has customers
ExtractRoute ==
  /\ opt.pc = "extract"
  /\ opt.vehicle_id < Len(OptTechs)
  /\ opt.pos > Len(opt.paths[opt.vehicle_id + 1])
  /\ opt' = [opt EXCEPT
               !.routes = IF opt.route_customers # <<>>
                          THEN Append(@, RouteDict(OptTechs[opt.vehicle_id + 1],
                                                   opt.route_customers))
                          ELSE @,
               !.vehicle_id = @ + 1, !.pos = 1, !.route_customers = <<>>]
  /\ UNCHANGED <<today, nticks, ncalls, temps, routes, pc, call,
                 saved_routes, route_stops, deployment, week>>

\* optimization.py:975: return routes
ExtractReturn ==
  /\ opt.pc = "extract"
  /\ opt.vehicle_id = Len(OptTechs)
  /\ opt' = [opt EXCEPT !.pc = "returned"]
  /\ UNCHANGED <<today, nticks, ncalls, temps, routes, pc, call,
                 saved_routes, route_stops, deployment, week>>

\* optimization.py:182-204, 278-280: a tech without customers with
\* coordinates, or without a solution, gets no route
RefineSkip ==
  /\ opt.pc = "refine"
  /\ opt.vehicle_id < Len(OptTechs)
  /\ opt.valid[opt.vehicle_id + 1] = <<>> \/ ~opt.solved[opt.vehicle_id + 1]
  /\ opt' = [opt EXCEPT !.vehicle_id = @ + 1]
  /\ UNCHANGED <<today, nticks, ncalls, temps, routes, pc, call,
                 saved_routes, route_stops, deployment, week>>

\* optimization.py:286-305: one turn of the while loop
RefineNode ==
  /\ opt.pc = "refine"
  /\ opt.vehicle_id < Len(OptTechs)
  /\ opt.valid[opt.vehicle_id + 1] # <<>> /\ opt.solved[opt.vehicle_id + 1]
  /\ opt.pos <= Len(opt.paths[opt.vehicle_id + 1])
  /\ LET node_index == opt.paths[opt.vehicle_id + 1][opt.pos]
     IN opt' = [opt EXCEPT
                  !.pos = @ + 1,
                  !.route_customers =
                     IF node_index > 0
                     THEN Append(@, StopDict(opt.valid[opt.vehicle_id + 1][node_index], @))
                     ELSE @]
  /\ UNCHANGED <<today, nticks, ncalls, temps, routes, pc, call,
                 saved_routes, route_stops, deployment, week>>

\* optimization.py:307-337: the route of the tech, if it has customers
RefineRoute ==
  /\ opt.pc = "refine"
  /\ opt.vehicle_id < Len(OptTechs)
  /\ opt.valid[opt.vehicle_id + 1] # <<>> /\ opt.solved[opt.vehicle_id + 1]
  /\ opt.pos > Len(opt.paths[opt.vehicle_id + 1])
  /\ opt' = [opt EXCEPT
               !.routes = IF opt.route_customers # <<>>
                          THEN Append(@, RouteDict(OptTechs[opt.vehicle_id + 1],
                                                   opt.route_customers))
                          ELSE @,
               !.vehicle_id = @ + 1, !.pos = 1, !.route_customers = <<>>]
  /\ UNCHANGED <<today, nticks, ncalls, temps, routes, pc, call,
                 saved_routes, route_stops, deployment, week>>

\* optimization.py:339-349: return {"routes": all_routes, ...}
RefineReturn ==
  /\ opt.pc = "refine"
  /\ opt.vehicle_id = Len(OptTechs)
  /\ opt' = [opt EXCEPT !.pc = "returned"]
  /\ UNCHANGED <<today, nticks, ncalls, temps, routes, pc, call,
                 saved_routes, route_stops, deployment, week>>

InitOptimize ==
  /\ today = 0
  /\ nticks = 0
  /\ ncalls = 0
  /\ temps = {}
  /\ routes = {}
  /\ pc = [p \in Procs |-> "idle"]
  /\ call = [p \in Procs |-> NoCall]
  /\ saved_routes = {}
  /\ route_stops = {}
  /\ deployment = "declared"
  /\ opt \in FullInputs \cup RefineInputs
  /\ week = NoWeek

\* one call of optimize for every solution the solver may return
NextOptimize ==
  \/ ExtractNode
  \/ ExtractRoute
  \/ ExtractReturn
  \/ RefineSkip
  \/ RefineNode
  \/ RefineRoute
  \/ RefineReturn

SpecOptimize == InitOptimize /\ [][NextOptimize]_vars

(***************************************************************************)
(* Requests that name rows of any tenant: the ids in a request are the     *)
(* client's choice, the tenant is that of the authenticated caller.        *)
(***************************************************************************)
SetTempAssignmentAny(p) ==
  \E org \in Orgs : \E c \in CustomerIds : \E t \in TechIds : \E day \in Days :
     TA_Start(p, org, c, t, day)

\* all handlers, one request at a time
NextTenant ==
  \/ AllIdle /\ ncalls < MaxTenantCalls /\ deployment # "v2" /\ SetTempAssignmentAny("p1")
  \/ AllIdle /\ ncalls < MaxTenantCalls /\ deployment # "v2" /\ GetDayRoutes("p1")
  \/ AllIdle /\ ncalls < MaxTenantCalls /\ SaveRoutes("p1")
  \/ AllIdle /\ ncalls < MaxTenantCalls /\ DeleteDayRoutes("p1")
  \/ AllIdle /\ ncalls < MaxTenantCalls /\ ReorderStops("p1")
  \/ AllIdle /\ ncalls < MaxTenantCalls /\ MoveStop("p1")
  \/ Step("p1")

SpecTenant == InitRoutes /\ [][NextTenant]_vars

(***************************************************************************)
(* optimize over several days: the scopes of POST /optimize                *)
(* (app/api/routes.py), the all-days branch and the cross-day mode of      *)
(* RouteOptimizationService.optimize_routes (app/services/optimization.py) *)
(* and the cross_day mode of the second backend.  A call takes a list of   *)
(* geocoded customers; what the solver returns for a day is every customer *)
(* of the day on some route, no solution, or an exception (the distance    *)
(* matrix comes from a routing service over the network).                  *)
(***************************************************************************)
WeekDayOrder ==
  <<"monday", "tuesday", "wednesday", "thursday", "friday", "saturday", "sunday">>

\* days = ['monday', 'tuesday', 'wednesday', 'thursday', 'friday', 'saturday']
ServiceDays ==
  <<"monday", "tuesday", "wednesday", "thursday", "friday", "saturday">>

\* days = ['monday', ..., 'friday'], plus saturday and sunday on request
RequestDays(include_saturday, include_sunday) ==
  <<"monday", "tuesday", "wednesday", "thursday", "friday">>
    \o (IF include_saturday THEN <<"saturday">> ELSE <<>>)
    \o (IF include_sunday THEN <<"sunday">> ELSE <<>>)

\* the customers of the tenant as the import creates them (api/imports.py):
\* residential once a week on its day, commercial twice a week Mo/Th
WeekCustomerOrder == <<"w1", "w2", "w3">>

WeekCustomerIds == Range(WeekCustomerOrder)

WeekCustomer ==
  [c \in WeekCustomerIds |->
     CASE c = "w1" ->
            [service_day |-> "monday", service_days_per_week |-> 1,
             service_schedule |-> <<>>, locked |-> TRUE]
       [] c = "w2" ->
            [service_day |-> "monday", service_days_per_week |-> 2,
             service_schedule |-> <<"M", "o", "/", "T", "h">>, locked |-> FALSE]
       [] OTHER ->
            [service_day |-> "saturday", service_days_per_week |-> 1,
             service_schedule |-> <<>>, locked |-> FALSE]]

\* routes.py:115-118, 168-172, 193-199: service_day == day, or the code of
\* the day somewhere in service_schedule
ApiDayCustomers(customers, day) ==
  {c \in customers :
     \/ WeekCustomer[c].service_day = day
     \/ /\ WeekCustomer[c].service_schedule # <<>>
        /\ Contains(WeekCustomer[c].service_schedule, DayAbbrev(day))}

\* RouteOptimizationService._customer_services_on_day
WeekServicesOnDay(c, day) ==
  IF WeekCustomer[c].service_days_per_week = 1
  THEN WeekCustomer[c].service_day = day
  ELSE /\ WeekCustomer[c].service_schedule # <<>>
       /\ DayAbbrev(day) # <<>>
       /\ Contains(WeekCustomer[c].service_schedule, DayAbbrev(day))

\* str.split(sep)
RECURSIVE SplitOn(_, _)
SplitOn(s, sep) ==
  IF \E i \in 1..Len(s) : s[i] = sep
  THEN LET i == CHOOSE k \in 1..Len(s) :
                  s[k] = sep /\ \A m \in 1..(k - 1) : s[m] # sep
       IN <<SubSeq(s, 1, i - 1)>> \o SplitOn(SubSeq(s, i + 1, Len(s)), sep)
  ELSE <<s>>

\* day_abbrev_to_full; NULL for a key the dict does not have
DayOfAbbrev(abbr) ==
  IF \E d \in Range(WeekDayOrder) : DayAbbrev(d) = abbr
  THEN CHOOSE d \in Range(WeekDayOrder) : DayAbbrev(d) = abbr
  ELSE NULL

\* optimization.py:378-400: customer_day_assignments, the days of every
\* customer that has a day or a schedule
CustomerDayAssignments(customers) ==
  [c \in {x \in customers : \/ WeekCustomer[x].service_days_per_week = 1
                            \/ WeekCustomer[x].service_schedule # <<>>} |->
     IF WeekCustomer[c].service_days_per_week = 1
     THEN {WeekCustomer[c].service_day}
     ELSE {DayOfAbbrev(abbr) :
             abbr \in Range(SplitOn(WeekCustomer[c].service_schedule, ","))}
            \ {NULL}]

\* optimization.py:392-395: multi_day_customers
MultiDayCustomers(customers) ==
  {c \in customers : /\ WeekCustomer[c].service_days_per_week # 1
                     /\ WeekCustomer[c].service_schedule # <<>>}

\* optimization.py:415-419: day_workloads
DayWorkloads(assignments) ==
  [d \in Range(ServiceDays) |->
     Cardinality({c \in DOMAIN assignments : d \in assignments[c]})]

RECURSIVE SumOver(_, _)
SumOver(f, S) ==
  IF S = {} THEN 0
  ELSE LET d == CHOOSE x \in S : TRUE IN f[d] + SumOver(f, S \ {d})

\* _calculate_workload_variance, times the square of the number of days:
\* n * sum(x^2) - sum(x)^2
WorkloadVariance(day_workloads, old_days, new_days) ==
  LET test == [d \in DOMAIN day_workloads |->
                 day_workloads[d] - (IF d \in old_days THEN 1 ELSE 0)
                                  + (IF d \in new_days THEN 1 ELSE 0)]
      sq == [d \in DOMAIN test |-> test[d] * test[d]]
      n == Cardinality(DOMAIN test)
  IN n * SumOver(sq, DOMAIN sq) - SumOver(test, DOMAIN test) * SumOver(test, DOMAIN test)

\* optimization.py:426-453: the days of an unlocked multi-day customer after
\* the search over combinations(days, freq).  The variances are floats: a
\* combination of exactly the least variance may or may not compare less
\* than an equal one found before it.
BestDays(day_workloads, current_days, freq) ==
  LET cands == {S \in SUBSET Range(ServiceDays) : Cardinality(S) = freq}
      var(S) == WorkloadVariance(day_workloads, current_days, S)
      base == WorkloadVariance(day_workloads, current_days, {})
      least == {S \in cands : \A U \in cands : var(S) <= var(U)}
  IN IF \E S \in least : var(S) < base THEN least
     ELSE IF \E S \in least : var(S) = base THEN least \cup {current_days}
     ELSE {current_days}

\* optimization.py:466-473: the first day of the least workload, if it is
\* less than the workload of the current day
BestDay(day_workloads, current_day) ==
  LET less == {i \in 1..Len(ServiceDays) :
                 /\ day_workloads[ServiceDays[i]] < day_workloads[current_day]
                 /\ \A k \in 1..Len(ServiceDays) :
                      day_workloads[ServiceDays[i]] <= day_workloads[ServiceDays[k]]}
  IN IF less = {} THEN current_day
     ELSE ServiceDays[CHOOSE i \in less : \A k \in less : i <= k]

\* route_optimization_service.py:184-192: locked and unlocked properties,
\* day_counts of the locked ones
PropertyDayCounts(customers) ==
  [d \in Range(ServiceDays) |->
     Cardinality({c \in customers : /\ WeekCustomer[c].locked
                                    /\ WeekCustomer[c].service_day = d})]

\* min(days, key=lambda d: day_counts[d]): the first day of the least count
LeastDay(day_counts) ==
  ServiceDays[CHOOSE i \in 1..Len(ServiceDays) :
                /\ \A k \in 1..Len(ServiceDays) :
                     day_counts[ServiceDays[i]] <= day_counts[ServiceDays[k]]
                /\ \A k \in 1..(i - 1) :
                     day_counts[ServiceDays[k]] > day_counts[ServiceDays[i]]]

\* the entry points: three scopes of POST /optimize, optimize_routes of the
\* service without a day (all days, or with day reassignment) and the
\* cross_day mode of the second backend
ApiScopes == {"selected_day", "entire_week", "complete_rerouting"}

WeekEntries == ApiScopes \cup {"all_days", "cross_day", "cross_day_v2"}

\* the days the call loops over
DaysOf(entry, service_day, include_saturday, include_sunday) ==
  IF entry = "selected_day" THEN <<service_day>>
  ELSE IF entry = "complete_rerouting"
       THEN RequestDays(include_saturday, include_sunday)
       ELSE ServiceDays

\* a call: the request and the locals before the first turn of a loop
WeekInput(entry, customers, unlocked, service_day, include_saturday, include_sunday) ==
  [NoWeek EXCEPT
     !.pc = IF entry = "cross_day_v2" THEN "rebalance" ELSE "loop",
     !.entry = entry,
     !.customers = customers,
     !.unlocked = IF entry = "cross_day" THEN unlocked
                  ELSE IF entry = "cross_day_v2"
                       THEN {c \in customers : ~WeekCustomer[c].locked}
                       ELSE {},
     !.include_saturday = include_saturday,
     !.include_sunday = include_sunday,
     !.days = DaysOf(entry, service_day, include_saturday, include_sunday),
     !.pass = IF entry = "cross_day" THEN "initial" ELSE "final",
     !.assignments =
        IF entry = "cross_day" THEN CustomerDayAssignments(customers)
        ELSE IF entry = "cross_day_v2"
             THEN [c \in customers |-> {WeekCustomer[c].service_day}]
             ELSE <<>>,
     !.day_workloads =
        IF entry = "cross_day_v2" THEN PropertyDayCounts(customers) ELSE <<>>]

WeekInputs ==
  {WeekInput(entry, customers, unlocked, service_day, sat, sun) :
     entry \in WeekEntries,
     customers \in SUBSET WeekCustomerIds \ {{}},
     unlocked \in SUBSET WeekCustomerIds,
     service_day \in {"monday", "thursday", "saturday"},
     sat \in BOOLEAN, sun \in BOOLEAN}

\* the customers handed to the solver for the day
DaySolveCustomers(w, day) ==
  IF w.entry \in ApiScopes
  THEN \* the filter of the endpoint, then the one of optimize_routes
       \* (optimization.py:657-658; 190-194 in refine mode)
       {c \in ApiDayCustomers(w.customers, day) : WeekServicesOnDay(c, day)}
  ELSE IF w.entry = "all_days"
       THEN {c \in w.customers : WeekServicesOnDay(c, day)}
       ELSE \* optimization.py:531-536, route_optimization_service.py:207
            {c \in DOMAIN w.assignments : day \in w.assignments[c]}

\* the keys of the summary the call returns
Summary(w) ==
  IF w.entry = "selected_day"
  THEN [total_routes |-> Cardinality(w.routes), total_customers |-> 0]
  ELSE IF w.entry \in ApiScopes
       THEN [total_routes |-> Cardinality(w.routes)]
       ELSE [total_routes |-> Cardinality(w.routes), total_customers |-> 0,
             optimization_mode |-> w.entry]

WeekUnchanged ==
  UNCHANGED <<today, nticks, ncalls, temps, routes, pc, call,
              saved_routes, route_stops, deployment, opt>>

\* "if not day_customers: continue", or optimize_routes answers without a
\* solve because no customer of the list is served on the day
WeekSkipDay ==
  /\ week.pc = "loop"
  /\ week.i <= Len(week.days)
  /\ DaySolveCustomers(week, week.days[week.i]) = {}
  /\ week' = [week EXCEPT !.i = @ + 1]
  /\ WeekUnchanged

\* _optimize_single_day returns: the routes of the day, or no routes and a
\* message when the solver found no solution (optimization.py:1041-1047)
WeekSolveDay ==
  /\ week.pc = "loop"
  /\ week.i <= Len(week.days)
  /\ LET day == week.days[week.i]
         solve == [service_day |-> day, customers |-> DaySolveCustomers(week, day)]
     IN /\ solve.customers # {}
        /\ \E found \in BOOLEAN :
             week' = [week EXCEPT
                        !.i = @ + 1,
                        !.solves = @ \cup {solve},
                        !.routes = IF found THEN @ \cup {solve} ELSE @]
  /\ WeekUnchanged

\* the solve of the day raises: complete_rerouting logs it and goes on
\* (routes.py:216-231); every other loop has no handler and the exception
\* leaves the call
WeekFailDay ==
  /\ week.pc = "loop"
  /\ week.i <= Len(week.days)
  /\ LET day == week.days[week.i]
         solve == [service_day |-> day, customers |-> DaySolveCustomers(week, day)]
     IN /\ solve.customers # {}
        /\ week' = [week EXCEPT
                      !.pc = IF week.entry = "complete_rerouting" THEN "loop"
                             ELSE "aborted",
                      !.i = @ + 1,
                      !.solves = @ \cup {solve},
                      !.failed = @ \cup {day}]
  /\ WeekUnchanged

\* optimization.py:408-419: after the first pass with unlocked customers,
\* count the workload of every day
WeekStartRebalance ==
  /\ week.pc = "loop"
  /\ week.i > Len(week.days)
  /\ week.entry = "cross_day" /\ week.pass = "initial" /\ week.unlocked # {}
  /\ week' = [week EXCEPT !.pc = "rebalance", !.j = 1,
                          !.day_workloads = DayWorkloads(week.assignments)]
  /\ WeekUnchanged

\* optimization.py:421-480: one turn of the loop over the customers
WeekRebalanceCustomer ==
  /\ week.pc = "rebalance"
  /\ week.entry = "cross_day"
  /\ week.j <= Len(WeekCustomerOrder)
  /\ LET c == WeekCustomerOrder[week.j]
         current == week.assignments[c]
     IN IF c \notin week.customers \/ c \notin week.unlocked
        THEN week' = [week EXCEPT !.j = @ + 1]
        ELSE \E best \in
               IF c \in MultiDayCustomers(week.customers)
               THEN BestDays(week.day_workloads, current,
                             WeekCustomer[c].service_days_per_week)
               ELSE {{BestDay(week.day_workloads, CHOOSE d \in current : TRUE)}} :
               week' = [week EXCEPT
                          !.j = @ + 1,
                          !.assignments = [@ EXCEPT ![c] = best],
                          !.moved = IF best # current THEN @ \cup {c} ELSE @,
                          !.day_workloads =
                             [d \in DOMAIN @ |->
                                @[d] - (IF d \in current THEN 1 ELSE 0)
                                     + (IF d \in best THEN 1 ELSE 0)]]
  /\ WeekUnchanged

\* route_optimization_service.py:194-198: one turn of the loop over the
\* unlocked properties
WeekRebalanceProperty ==
  /\ week.pc = "rebalance"
  /\ week.entry = "cross_day_v2"
  /\ week.j <= Len(WeekCustomerOrder)
  /\ LET c == WeekCustomerOrder[week.j]
         least_day == LeastDay(week.day_workloads)
     IN IF c \notin week.unlocked
        THEN week' = [week EXCEPT !.j = @ + 1]
        ELSE week' = [week EXCEPT
                        !.j = @ + 1,
                        !.assignments = [@ EXCEPT ![c] = {least_day}],
                        !.moved = IF {least_day} # week.assignments[c]
                                  THEN @ \cup {c} ELSE @,
                        !.day_workloads = [@ EXCEPT ![least_day] = @ + 1]]
  /\ WeekUnchanged

\* optimization.py:482-486, route_optimization_service.py:200-206: solve
\* every day again with the new assignments
WeekReoptimize ==
  /\ week.pc = "rebalance"
  /\ week.j > Len(WeekCustomerOrder)
  /\ week' = [week EXCEPT !.pc = "loop", !.pass = "final", !.i = 1,
                          !.routes = {}]
  /\ WeekUnchanged

\* return {"routes": all_routes, "summary": {...}}
WeekReturn ==
  /\ week.pc = "loop"
  /\ week.i > Len(week.days)
  /\ ~(week.entry = "cross_day" /\ week.pass = "initial" /\ week.unlocked # {})
  /\ week' = [week EXCEPT !.pc = "returned", !.summary = Summary(week)]
  /\ WeekUnchanged

InitWeek ==
  /\ today = 0
  /\ nticks = 0
  /\ ncalls = 0
  /\ temps = {}
  /\ routes = {}
  /\ pc = [p \in Procs |-> "idle"]
  /\ call = [p \in Procs |-> NoCall]
  /\ saved_routes = {}
  /\ route_stops = {}
  /\ deployment = "declared"
  /\ opt = NoOptimize
  /\ week \in WeekInputs

\* one call of optimize over several days, for every outcome of every solve
NextWeek ==
  \/ WeekSkipDay
  \/ WeekSolveDay
  \/ WeekFailDay
  \/ WeekStartRebalance
  \/ WeekRebalanceCustomer
  \/ WeekRebalanceProperty
  \/ WeekReoptimize
  \/ WeekReturn

SpecWeek == InitWeek /\ [][NextWeek]_vars

(***************************************************************************)
(* Notions of the specification, for the properties below.                 *)
(***************************************************************************)
\* RouteOptimizationService._customer_services_on_day: serves_on(customer, day)
CustomerServicesOnDay(c, day) ==
  IF Customer[c].service_days_per_week = 1
  THEN Customer[c].service_day = day
  ELSE /\ Customer[c].service_schedule # <<>>
       /\ DayAbbrev(day) # <<>>
       /\ Contains(Customer[c].service_schedule, DayAbbrev(day))

Dates == 0..(LongGap * (MaxTicks + 1))

\* the techs the temp rows of table T name for (customer, day, date), seen
\* on day td; the permanent tech when no unexpired row names one
EffectiveTechs(T, td, org, c, day, date) ==
  LET rows == {r \in T : /\ r.organization_id = org
                         /\ r.customer_id = c
                         /\ r.service_day = day
                         /\ r.assignment_date = date
                         /\ ~(r.assignment_date < td - TempTtlDays)}
  IN IF rows # {} THEN {r.tech_id : r \in rows}
     ELSE {Customer[c].assigned_tech_id}

\* primary day is the day, or the day's code is in the schedule pattern
ScheduledOn(c, day) ==
  \/ Customer[c].service_day = day
  \/ Contains(Customer[c].service_schedule, DayAbbrev(day))

\* active customers of the tenant scheduled on the day whose effective tech
\* today is the tech
Eligible(T, td, org, tech, day) ==
  {c \in CustomersOf(org) :
     /\ Customer[c].is_active
     /\ ScheduledOn(c, day)
     /\ EffectiveTechs(T, td, org, c, day, td) = {tech}}

RouteOf(R, org, tech, day, date) ==
  {r \in R : /\ r.organization_id = org
             /\ r.tech_id = tech
             /\ r.service_day = day
             /\ r.route_date = date}

\* a set_temp_assignment that ran to its last line
Completed(p) ==
  /\ pc[p] = "done"
  /\ call[p].op = "set_temp_assignment"
  /\ call[p].result \in {"ok", "UnboundLocalError"}

PrevNew(p) == {call[p].old_tech_id, call[p].new_tech_id} \ {NULL}

(***************************************************************************)
(* C1.  After set_temp_assignment(C, T, D) the effective tech of C on      *)
(* (D, today) is T (a temp row with tech T when T differs from C's         *)
(* permanent tech, otherwise no temp row), and the effective assignment of *)
(* every other (customer, day, date) is what it was before the call.  The  *)
(* temp table changes in the one commit of the call, so the claim is a     *)
(* property of that step.                                                  *)
(***************************************************************************)
C1_EffectiveAssignment ==
  [][\A p \in Procs :
       (pc[p] = "ta_commit" /\ pc'[p] = "ta_delete_routes") =>
         LET k == call[p]
             mine == {r \in temps' : /\ r.organization_id = k.organization_id
                                    /\ r.customer_id = k.customer_id
                                    /\ r.service_day = k.service_day
                                    /\ r.assignment_date = k.today}
         IN /\ EffectiveTechs(temps', today, k.organization_id, k.customer_id,
                              k.service_day, k.today) = {k.new_tech_id}
            /\ IF k.new_tech_id # Customer[k.customer_id].assigned_tech_id
               THEN Cardinality(mine) = 1
               ELSE mine = {}
            /\ \A org \in Orgs : \A c \in CustomersOf(org) :
               \A day \in Days : \A date \in Dates :
                  <<org, c, day, date>> #
                     <<k.organization_id, k.customer_id, k.service_day, k.today>>
                  => EffectiveTechs(temps', today, org, c, day, date)
                       = EffectiveTechs(temps, today, org, c, day, date)]_vars

Reinserting(q) ==
  \/ pc[q] = "ta_insert"
  \/ pc[q] = "ta_loop" /\ call[q].todo # {}

C5_AtomicTempAssignment ==
  [][\A p, q \in Procs :
       (p # q /\ Reinserting(q)) =>
          ~ \/ pc[p] = "idle" /\ pc'[p] # "idle"
            \/ pc[p] = "gd_generate" /\ pc'[p] = "gd_commit"
            \/ pc[p] = "ta_loop" /\ pc'[p] = "ta_insert"]_vars

(***************************************************************************)
(* C6.  A temp assignment whose assignment_date is earlier than today      *)
(* minus 6 days is never among the rows from which set_temp_assignment or  *)
(* get_day_routes take the effective assignment (the old temp of the       *)
(* customer, the temp assignments of the day), whatever calls and day      *)
(* changes came before.                                                    *)
(***************************************************************************)
C6_NoExpiredTempUsed ==
  \A p \in Procs :
    \A r \in call[p].old_temp \cup call[p].temp_rows :
      ~(r.assignment_date < today - TempTtlDays)

\* get_day_routes has computed the routes of a day for which an expired
\* temp row of the tenant is still stored
C6_Witness ==
  \E p \in Procs :
    /\ pc[p] = "gd_commit"
    /\ call[p].pending # {}
    /\ \E r \in temps :
         /\ r.organization_id = call[p].organization_id
         /\ r.service_day = call[p].service_day
         /\ r.assignment_date < today - TempTtlDays

(***************************************************************************)
(* C7.  In every reachable state there is at most one TempAssignment row   *)
(* per (tenant, customer, service_day, assignment_date).                   *)
(***************************************************************************)
C7_UniqueTempAssignment ==
  \A r1, r2 \in temps :
    ( /\ r1.organization_id = r2.organization_id
      /\ r1.customer_id = r2.customer_id
      /\ r1.service_day = r2.service_day
      /\ r1.assignment_date = r2.assignment_date ) => r1 = r2

TenantOf(r) ==
  IF r.organization_id # NULL THEN r.organization_id
  ELSE Tech[r.tech_id].organization_id

\* routes with their stops, without the generated ids
AbstractRoutes(RT, ST) ==
  {[tech_id |-> r.tech_id, service_day |-> r.service_day,
    total_customers |-> r.total_customers,
    total_duration_minutes |-> r.total_duration_minutes,
    stops |-> {<<s.customer_id, s.sequence>> : s \in {x \in ST : x.route_id = r.id}}]
     : r \in RT}

\* the routes a save request asks for
RequestRoutes(day, R) ==
  {[tech_id |-> R[i].tech_id, service_day |-> day,
    total_customers |-> Len(R[i].stops),
    total_duration_minutes |-> R[i].total_duration_minutes,
    stops |-> {<<R[i].stops[j].customer_id, R[i].stops[j].sequence>>
                 : j \in 1..Len(R[i].stops)}] : i \in 1..Len(R)}

\* save_routes of the backend in use, as a function of the tables
SaveEffect(RT, ST, org, day, R) ==
  IF deployment = "v2" THEN ServiceSaveRoutes(RT, ST, org, day, R)
  ELSE SaveRoutesResult(RT, ST, deployment = "migrated", org, day, R)

\* a request handled in this step
Handled(p, op) == pc[p] = "idle" /\ pc'[p] = "done" /\ call'[p].op = op

\* the sequence values of the stops of a route are 1..n, each once
Dense(ST, route_id) ==
  LET ss == {s \in ST : s.route_id = route_id}
  IN /\ {s.sequence : s \in ss} = 1..Cardinality(ss)
     /\ \A s, t \in ss : s.sequence = t.sequence => s = t

(***************************************************************************)
(* C11.  save_routes(tenant, day, R) is idempotent: running it again with  *)
(* the same R right after it has run leaves the same routes and stops      *)
(* (techs, tenants, days, stop customers, sequences and aggregates; the    *)
(* generated ids aside) as the first run left, and gives the same answer.  *)
(***************************************************************************)
C11_SaveIdempotent ==
  [][\A p \in Procs :
       Handled(p, "save_routes") =>
         LET k == call'[p]
             again == SaveEffect(saved_routes', route_stops', k.organization_id,
                                 k.service_day, k.routes_in)
         IN /\ again.result = k.result
            /\ AbstractRoutes(again.saved_routes, again.route_stops)
                 = AbstractRoutes(saved_routes', route_stops')
            /\ {<<r.tech_id, r.service_day, r.organization_id>> : r \in again.saved_routes}
                 = {<<r.tech_id, r.service_day, r.organization_id>> : r \in saved_routes'}
            /\ Cardinality(again.saved_routes) = Cardinality(saved_routes')
            /\ Cardinality(again.route_stops) = Cardinality(route_stops')]_vars

\* a save has replaced the routes that an earlier save of the same request
\* had stored
C11_Witness ==
  \E p \in Procs :
    /\ pc[p] = "done"
    /\ call[p].op = "save_routes"
    /\ call[p].result = "ok"
    /\ Len(call[p].routes_in) = 2
    /\ Cardinality(call[p].existing) = 2
    /\ {<<r.tech_id, r.total_customers, r.total_duration_minutes>> : r \in call[p].existing}
         = {<<call[p].routes_in[i].tech_id, Len(call[p].routes_in[i].stops),
              call[p].routes_in[i].total_duration_minutes>> : i \in 1..2}

(***************************************************************************)
(* C12.  If a tech_id in the routes passed to save_routes does not belong  *)
(* to the caller's tenant, the call is rejected and the persisted routes   *)
(* and stops are what they were before the call.                           *)
(***************************************************************************)
C12_ForeignTechRejected ==
  [][\A p \in Procs :
       ( /\ Handled(p, "save_routes")
         /\ \E i \in 1..Len(call'[p].routes_in) :
               Tech[call'[p].routes_in[i].tech_id].organization_id
                 # call'[p].organization_id ) =>
         /\ call'[p].result = "Forbidden"
         /\ saved_routes' = saved_routes
         /\ route_stops' = route_stops]_vars

(***************************************************************************)
(* C13.  After a successful save_routes(tenant, day, R) with techs of the  *)
(* tenant, the persisted routes of the tenant for the day are exactly the  *)
(* routes of R (earlier routes of the day are gone, those of techs that R  *)
(* does not name too), and the routes of other days and of other tenants   *)
(* are unchanged.                                                          *)
(***************************************************************************)
C13_SaveReplacesDay ==
  [][\A p \in Procs :
       ( /\ Handled(p, "save_routes")
         /\ call'[p].result = "ok"
         /\ \A i \in 1..Len(call'[p].routes_in) :
               Tech[call'[p].routes_in[i].tech_id].organization_id
                 = call'[p].organization_id ) =>
         LET k == call'[p]
             mine(r) == r.service_day = k.service_day /\ TenantOf(r) = k.organization_id
             now == {r \in saved_routes' : mine(r)}
             kept == {r \in saved_routes : ~mine(r)}
         IN /\ AbstractRoutes(now, route_stops') = RequestRoutes(k.service_day, k.routes_in)
            /\ Cardinality(now) = Len(k.routes_in)
            /\ {r \in saved_routes' : ~mine(r)} = kept
            /\ StopsOfRoutes(route_stops', kept) = StopsOfRoutes(route_stops, kept)]_vars

(***************************************************************************)
(* C14.  save_routes(tenant, day, R) followed by get_day_routes(tenant,    *)
(* day) returns the saved routes: when the tables hold R for the day, a    *)
(* read of the day by app/api/routes.py (get_routes_by_day or              *)
(* get_tech_routes_for_day) succeeds with a non-empty result, one route    *)
(* for every route of R, with the stop ids in the order of R.              *)
(***************************************************************************)
C14_SaveThenGetDayRoutes ==
  \A p \in Procs : \A R \in SaveRequests \ {<<>>} :
    ( /\ pc[p] = "done"
      /\ deployment # "v2"
      /\ call[p].op \in {"get_day_routes", "get_routes_by_day"}
      /\ \A i \in 1..Len(R) :
            Tech[R[i].tech_id].organization_id = call[p].organization_id
      /\ AbstractRoutes({r \in saved_routes :
                           /\ r.service_day = call[p].service_day
                           /\ TenantOf(r) = call[p].organization_id},
                        route_stops)
           = RequestRoutes(call[p].service_day, R) ) =>
      /\ call[p].result = "ok"
      /\ {<<u.tech_id, u.stop_sequence>> : u \in call[p].response}
           = {<<R[i].tech_id,
                [j \in 1..Len(R[i].stops) |-> R[i].stops[j].customer_id]>>
                : i \in 1..Len(R)}

(***************************************************************************)
(* C15.  After delete_day_routes(tenant, day) a read of the routes of the  *)
(* tenant for the day finds none (their stops are gone with them), and the *)
(* routes of other service days and of other tenants, with their stops,    *)
(* are unchanged.                                                          *)
(***************************************************************************)
C15_DeleteDayRoutes ==
  [][\A p \in Procs :
       Handled(p, "delete_day_routes") =>
         LET k == call'[p]
             mine(r) == r.service_day = k.service_day /\ TenantOf(r) = k.organization_id
             kept == {r \in saved_routes : ~mine(r)}
         IN /\ RoutesByDayQuery(saved_routes', k.organization_id, k.service_day) = {}
            /\ saved_routes' = kept
            /\ route_stops' = StopsOfRoutes(route_stops, kept)]_vars

\* a delete removed routes of the day while another tenant had routes for
\* the same day
C15_Witness ==
  \E p \in Procs :
    /\ pc[p] = "done"
    /\ call[p].op = "delete_day_routes"
    /\ call[p].existing # {}
    /\ \E r \in saved_routes :
         /\ r.service_day = call[p].service_day
         /\ TenantOf(r) # call[p].organization_id
         /\ StopsOfRoutes(route_stops, {r}) # {}

(***************************************************************************)
(* C16.  After reorder_stops on a route with N stops the sequence values   *)
(* of the stops of the route are a permutation of 1..N (no gap, no         *)
(* duplicate), whatever the input list was.                                *)
(***************************************************************************)
C16_DenseAfterReorder ==
  \A p \in Procs :
    (pc[p] = "done" /\ call[p].op = "reorder_stops" /\ call[p].result = "ok") =>
      Dense(route_stops, call[p].route_id)

\* reorder_stops of the backend in use, as a function of the tables
ReorderEffect(RT, ST, org, route_id, stops_data) ==
  IF deployment = "v2"
  THEN ServiceReorderStop(RT, ST, org, stops_data[1].stop_id, stops_data[1].sequence)
  ELSE UpdateRouteStopsResult(RT, ST, org, route_id, stops_data)

\* the request that gives the stops named in stops_data the sequence values
\* they have in ST
InverseRequest(ST, stops_data) ==
  [i \in 1..Len(stops_data) |->
     [stop_id |-> stops_data[i].stop_id,
      sequence |-> IF \E s \in ST : s.id = stops_data[i].stop_id
                   THEN (CHOOSE s \in ST : s.id = stops_data[i].stop_id).sequence
                   ELSE stops_data[i].sequence]]

(***************************************************************************)
(* C17.  reorder_stops is idempotent and invertible: the same request      *)
(* applied again changes no stop, and the request followed by its inverse  *)
(* (the stops it names, with the sequence values they had) gives every     *)
(* stop the sequence value it had before.                                  *)
(***************************************************************************)
C17_ReorderIdempotentInvertible ==
  [][\A p \in Procs :
       (Handled(p, "reorder_stops") /\ call'[p].result = "ok") =>
         LET k == call'[p]
             again == ReorderEffect(saved_routes', route_stops', k.organization_id,
                                    k.route_id, k.stops_in)
             back == ReorderEffect(saved_routes', route_stops', k.organization_id,
                                   k.route_id, InverseRequest(route_stops, k.stops_in))
         IN /\ again.route_stops = route_stops'
            /\ back.route_stops = route_stops]_vars

(***************************************************************************)
(* C18.  After move_stop(stop, target_route, insert_seq) the stop belongs  *)
(* to the target route at position insert_seq clamped to                   *)
(* [1, len(target) + 1], the sequence values of the source route and of    *)
(* the target route are dense 1..n without duplicates, and total_customers *)
(* of each of the two routes is the number of its stops.                   *)
(***************************************************************************)
C18_MoveStop ==
  [][\A p \in Procs :
       (Handled(p, "move_stop") /\ call'[p].result = "ok") =>
         LET k == call'[p]
             len == Cardinality({s \in route_stops :
                                   s.route_id = k.target_route_id /\ s.id # k.stop_id})
             pos == IF k.new_sequence < 1 THEN 1
                    ELSE IF k.new_sequence > len + 1 THEN len + 1
                    ELSE k.new_sequence
             counted(rid) ==
               \A r \in saved_routes' :
                  r.id = rid =>
                    r.total_customers = Cardinality({s \in route_stops' : s.route_id = rid})
         IN /\ \E s \in route_stops' :
                 s.id = k.stop_id /\ s.route_id = k.target_route_id /\ s.sequence = pos
            /\ Dense(route_stops', k.route_id)
            /\ Dense(route_stops', k.target_route_id)
            /\ counted(k.route_id)
            /\ counted(k.target_route_id)]_vars

(***************************************************************************)
(* C19.  Every route that optimize returns, in every mode, has             *)
(* total_customers equal to the number of its stops, stop sequence values  *)
(* 1, 2, ..., n in list order, and at least one stop.                      *)
(***************************************************************************)
C19_OptimizeRoutes ==
  opt.pc = "returned" =>
    \A i \in 1..Len(opt.routes) :
       LET r == opt.routes[i]
       IN /\ r.total_customers = Len(r.stops)
          /\ Len(r.stops) > 0
          /\ \A j \in 1..Len(r.stops) : r.stops[j].sequence = j

\* optimize has returned a route of two or more stops and none for a tech
\* that the solution gave no customer
C19_Witness ==
  /\ opt.pc = "returned"
  /\ Len(opt.routes) < Len(OptTechs)
  /\ \E i \in 1..Len(opt.routes) : Len(opt.routes[i].stops) >= 2

\* every stored row references customers and techs of one tenant, its own
RowsOfOneTenant ==
  /\ \A r \in temps :
       /\ Customer[r.customer_id].organization_id = r.organization_id
       /\ Tech[r.tech_id].organization_id = r.organization_id
  /\ \A r \in routes :
       /\ Tech[r.tech_id].organization_id = r.organization_id
       /\ \A c \in Range(r.stop_sequence) :
            Customer[c].organization_id = r.organization_id
  /\ \A r \in saved_routes :
       /\ Tech[r.tech_id].organization_id = TenantOf(r)
       /\ \A s \in StopsOfRoutes(route_stops, {r}) :
            Customer[s.customer_id].organization_id = TenantOf(r)

\* the request names a customer, a tech or a stop of another tenant
NamesForeign(k) ==
  \/ \E i \in 1..Len(k.routes_in) :
        \/ Tech[k.routes_in[i].tech_id].organization_id # k.organization_id
        \/ \E j \in 1..Len(k.routes_in[i].stops) :
              Customer[k.routes_in[i].stops[j].customer_id].organization_id
                # k.organization_id
  \/ \E i \in 1..Len(k.stops_in) : \E s \in route_stops : \E r \in saved_routes :
        /\ s.id = k.stops_in[i].stop_id
        /\ r.id = s.route_id
        /\ TenantOf(r) # k.organization_id

\* a save, reorder or move that names a row of another tenant does not
\* succeed
ForeignRejected ==
  \A p \in Procs :
    ( /\ pc[p] = "done"
      /\ call[p].op \in {"save_routes", "reorder_stops", "move_stop"}
      /\ NamesForeign(call[p]) ) => call[p].result # "ok"

(***************************************************************************)
(* C20.  Tenant isolation in app/api/routes.py: no call made with tenant A *)
(* creates or modifies a row that references a customer, a tech, a route   *)
(* or a stop of tenant B, so every stored row references its own tenant's  *)
(* customers and techs, and a save, reorder or move that names such an id  *)
(* is rejected.                                                            *)
(***************************************************************************)
C20_TenantIsolation ==
  deployment # "v2" => (RowsOfOneTenant /\ ForeignRejected)

(***************************************************************************)
(* C27.  A set_temp_assignment whose new tech is the customer's permanent  *)
(* tech removes the temp row of (customer, day, today), inserts none, and  *)
(* the call completes successfully with the regenerated routes.            *)
(***************************************************************************)
C27_RevertToPermanent ==
  \A p \in Procs :
    ( /\ pc[p] = "done"
      /\ call[p].op = "set_temp_assignment"
      /\ call[p].new_tech_id = Customer[call[p].customer_id].assigned_tech_id )
    => /\ call[p].result = "ok"
       /\ call[p].temp_assignment = {}
       /\ ~ \E r \in temps : /\ r.organization_id = call[p].organization_id
                             /\ r.customer_id = call[p].customer_id
                             /\ r.service_day = call[p].service_day
                             /\ r.assignment_date = call[p].today

\* the TechRoutes stored for (tenant, day, date)
StoredFor(org, day, date) ==
  {r \in routes : /\ r.organization_id = org
                  /\ r.service_day = day
                  /\ r.route_date = date}

C21_RefineKeepsTechs ==
  (opt.pc = "returned" /\ opt.mode \in {"refine", "refine_v2"}) =>
    /\ \A i \in 1..Len(opt.routes) : \A j \in 1..Len(opt.routes[i].stops) :
          opt.assigned[opt.routes[i].stops[j].customer_id] = opt.routes[i].driver_id
    /\ \A i1, i2 \in 1..Len(opt.routes) :
         \A j1 \in 1..Len(opt.routes[i1].stops) :
         \A j2 \in 1..Len(opt.routes[i2].stops) :
            opt.routes[i1].stops[j1].customer_id = opt.routes[i2].stops[j2].customer_id
              => (i1 = i2 /\ j1 = j2)

\* refine has returned a route for each of two techs while a third customer,
\* assigned to no tech of the request, is on none
C21_Witness ==
  /\ opt.pc = "returned"
  /\ opt.mode \in {"refine", "refine_v2"}
  /\ Len(opt.routes) = 2
  /\ \E c \in DOMAIN opt.assigned :
        /\ opt.assigned[c] \notin Range(OptTechs)
        /\ \A i \in 1..Len(opt.routes) : \A j \in 1..Len(opt.routes[i].stops) :
              opt.routes[i].stops[j].customer_id # c

\* the entry points of the first backend that solve several days
MultiDayEntries == {"entire_week", "complete_rerouting", "all_days", "cross_day"}

(***************************************************************************)
(* C23.  In a multi-day optimize (entire week, complete rerouting, all     *)
(* days, cross-day) a failure of the solve of one day does not abort the   *)
(* call: the call returns, and when a day has failed its summary has a     *)
(* failed_days list naming exactly the days that failed.                   *)
(***************************************************************************)
C23_FailedDayDoesNotAbort ==
  week.entry \in MultiDayEntries =>
    /\ week.pc # "aborted"
    /\ (week.pc = "returned" /\ week.failed # {}) =>
          /\ "failed_days" \in DOMAIN week.summary
          /\ week.summary.failed_days = week.failed

\* the two-letter code of the day is one of the codes of the customer's
\* schedule pattern
PatternHas(c, day) ==
  \E i \in 1..Len(SplitOn(WeekCustomer[c].service_schedule, "/")) :
     SplitOn(WeekCustomer[c].service_schedule, "/")[i] = DayAbbrev(day)

(***************************************************************************)
(* C26.  A customer with days_per_week > 1 is in the solve of day d        *)
(* exactly when the code of d is in its schedule pattern, whichever path   *)
(* selected the customers of the day (a customer that cross-day mode may   *)
(* move aside).                                                            *)
(***************************************************************************)
C26_PatternDecidesDays ==
  week.pc = "returned" =>
    \A c \in week.customers \ week.unlocked :
      WeekCustomer[c].service_days_per_week > 1 =>
        \A i \in 1..Len(week.days) :
           (\E s \in week.solves : s.service_day = week.days[i] /\ c \in s.customers)
             <=> PatternHas(c, week.days[i])

\* the day(s) of the customer before the call: its primary day, or the days
\* of its schedule pattern
OriginalDays(c) ==
  IF WeekCustomer[c].service_days_per_week = 1
  THEN {WeekCustomer[c].service_day}
  ELSE {d \in Range(WeekDayOrder) : PatternHas(c, d)}

\* the days on which the last pass of the call solves the customer
FinalDays(c) ==
  IF c \in DOMAIN week.assignments
  THEN {d \in Range(week.days) : d \in week.assignments[c]}
  ELSE {}

(***************************************************************************)
(* C28.  In cross-day mode a customer that is locked or is not in          *)
(* unlocked_customer_ids is solved on exactly its original day(s), and an  *)
(* unlocked customer on as many days as its days_per_week: rebalancing     *)
(* never changes the number of days a customer is served.                  *)
(***************************************************************************)
C28_CrossDayKeepsLockedDays ==
  (week.pc = "returned" /\ week.entry \in {"cross_day", "cross_day_v2"}) =>
    \A c \in week.customers :
       /\ (c \notin week.unlocked \/ WeekCustomer[c].locked)
             => FinalDays(c) = OriginalDays(c)
       /\ c \in week.unlocked
             => Cardinality(FinalDays(c)) = WeekCustomer[c].service_days_per_week

\* monday to friday, saturday when include_saturday is set and sunday when
\* include_sunday is set
AllowedDays ==
  {"monday", "tuesday", "wednesday", "thursday", "friday"}
    \cup (IF week.include_saturday THEN {"saturday"} ELSE {})
    \cup (IF week.include_sunday THEN {"sunday"} ELSE {})

(***************************************************************************)
(* C29.  A multi-day optimize solves, and cross-day mode moves customers   *)
(* to, monday..friday, saturday only with include_saturday and sunday only *)
(* with include_sunday: no returned route and no reassignment uses another *)
(* day.                                                                    *)
(***************************************************************************)
C29_OnlyRequestedDays ==
  (week.pc = "returned" /\ week.entry \in MultiDayEntries) =>
    /\ \A r \in week.routes : r.service_day \in AllowedDays
    /\ \A c \in week.moved : week.assignments[c] \subseteq AllowedDays

====
